---------------------------- MODULE Spec2Model ----------------------------
(***************************************************************************)
(* Model of the AJOB4AGENT LLM service: the retrying model client          *)
(* (services/llm-service/src/services/openai_client.py), the two queue     *)
(* workers (files/services/llm-service/app/worker.py and                   *)
(* services/agent-monitoring-service/app/worker.py) and the resume         *)
(* tailoring request (services/llm-service/src/services/resume_tailor.py  *)
(* behind services/llm-service/src/routers/resume.py), the section parser  *)
(* of services/llm-service/app/openai_client.py, the skill extraction and   *)
(* job scoring of src/processing.py, the parameters of a request, the      *)
(* shutdown of the monitoring service and concurrent requests on a client. *)
(***************************************************************************)
EXTENDS Integers, Sequences, FiniteSets, TLC

VARIABLES
    \* ---- OpenAIClient and one request to _make_request_with_retry ----
    max_retries,     \* self.max_retries  (settings.max_retries)
    retry_delay,     \* self.retry_delay  (settings.retry_delay), in whole time units
    provider,        \* what the transport does on its 1st, 2nd, ... invocation
    cpc,             \* lifecycle state of the request
    attempt,         \* the loop variable of `for attempt in range(self.max_retries)`
    calls,           \* number of invocations of self._client.chat.completions.create
    last_exception,  \* the local last_exception
    sleeps,          \* the arguments of asyncio.sleep, in call order
    outcome,         \* what the request returned or raised
    \* ---- one queue worker process and its broker ----
    worker,          \* the program the process runs: "tailoring" or "monitoring"
    wpc,             \* position of the worker process
    inQueue,         \* messages ready in the queue the worker consumes
    unacked,         \* messages delivered to the worker and not settled
    outQueue,        \* messages published to OUT_QUEUE
    log,             \* one record per delivery: what the callback did with it
    retry_count,     \* consecutive failed connection attempts
    queues,          \* the queues declared on the broker: name and durable flag
    \* ---- one call of ResumeTailorService.tailor_resume behind the router ----
    tpc,             \* position of the tailoring request
    resume,          \* the resume argument
    reply_json,      \* the JSON object the model wrote in its reply
    response_text,   \* response_text, the content chat_completion returned
    parsed,          \* what parse_json_response returned or raised
    tailor_outcome,  \* what tailor_resume returned or raised
    http_status,     \* the status code the router answers with
    \* ---- one call of OpenAIClient._parse_tailored_response ----
    ppc,             \* position of the call
    response_lines,  \* the response argument, as response.split("\n")
    line_no,         \* number of lines the for loop has taken
    current_section, \* the local current_section
    current_content, \* the local current_content
    sections,        \* the dict sections, returned at the end
    \* ---- extract_skills_from_resume and score_jobs ----
    spc,             \* position of the caller of the two functions
    resume_text,     \* the resume_text argument
    resume_skills,   \* what extract_skills_from_resume returned
    df,              \* the jobs DataFrame the caller holds
    tie_order,       \* how the sort of this build orders rows of equal score
    runs,            \* what each call of score_jobs returned or raised
    \* ---- an OpenAIClient constructed and one chat_completion call on it ----
    opc,             \* position: not constructed, constructed, request sent
    init_args,       \* the arguments model, max_tokens, temperature of __init__
    self_cfg,        \* self.model, self.max_tokens, self.temperature
    call_args,       \* the same three arguments of chat_completion
    kwargs,          \* the kwargs handed to the transport
    \* ---- the monitoring service: its consumer thread and the lifespan ----
    consumer_pc,     \* position of the thread that runs start_consuming
    lifespan_pc,     \* position of the application's lifespan (the main thread)
    mon_connection,  \* self.connection: None, open or closed
    mon_channel,     \* self.channel: None, open (consuming) or stopped
    should_stop,     \* self.should_stop
    mon_retry,       \* the local retry_count of connect_rabbitmq
    ready,           \* number of messages ready in CONSUME_QUEUE
    \* ---- concurrent requests to _make_request_with_retry on one client ----
    co_max_retries,  \* self.max_retries of the shared client
    co_provider,     \* per request: what the transport does on its calls
    co_pc,           \* per request: lifecycle state of the coroutine
    co_attempt,      \* per request: the local attempt
    co_calls,        \* per request: number of transport calls it has made
    co_last,         \* per request: the local last_exception
    co_outcome       \* per request: what it returned or raised

clientVars == <<max_retries, retry_delay, provider, cpc, attempt, calls,
                last_exception, sleeps, outcome>>

workerVars == <<worker, wpc, inQueue, unacked, outQueue, log, retry_count,
                queues>>

tailorVars == <<tpc, resume, reply_json, response_text, parsed, tailor_outcome,
                http_status>>

sectionVars == <<ppc, response_lines, line_no, current_section, current_content,
                 sections>>

scoreVars == <<spc, resume_text, resume_skills, df, tie_order, runs>>

overrideVars == <<opc, init_args, self_cfg, call_args, kwargs>>

shutdownVars == <<consumer_pc, lifespan_pc, mon_connection, mon_channel,
                  should_stop, mon_retry, ready>>

coVars == <<co_max_retries, co_provider, co_pc, co_attempt, co_calls, co_last,
           co_outcome>>

restVars == <<overrideVars, shutdownVars, coVars>>

pureVars == <<sectionVars, scoreVars, restVars>>

vars == <<clientVars, workerVars, tailorVars, pureVars>>

-----------------------------------------------------------------------------
(* Bounds of the model *)

MaxRetriesCfg == 4
MaxRetriesLive == 3
MaxDelayCfg == 2
MaxMsgs == 2
MaxDeliveries == 3
MaxConnectFailures == 2

-----------------------------------------------------------------------------
(* The transport (AsyncOpenAI.chat.completions.create) *)

\* Outcomes of one transport invocation: a response (ok), a response whose
\* usage is None (ok_no_usage), or a raised exception.
\* rate_limit = RateLimitError, connection = APIConnectionError,
\* timeout = APITimeoutError, api_error = any other OpenAIError,
\* non_openai = an exception raised in the try body that is not an
\* OpenAIError (the IndexError of response.choices[0] on an empty choices
\* list, for one).
TransportOutcomes ==
    {"ok", "ok_no_usage", "rate_limit", "connection", "timeout", "api_error",
     "non_openai"}

Responses == {"ok", "ok_no_usage"}

\* what a provider with the given script does on its i-th invocation, and
\* the response object it then returns
OutcomeOf(script, i) ==
    IF i <= Len(script) THEN script[i] ELSE script[Len(script)]

ResponseOf(script, i) ==
    [content |-> i, has_usage |-> OutcomeOf(script, i) = "ok",
     total_tokens |-> 10 * i]

\* The provider's behaviour on its i-th invocation; past the end of the
\* script the provider keeps doing what it did last.
ProviderOutcome(i) == OutcomeOf(provider, i)

\* The response object of the i-th invocation: choices[0].message.content,
\* whether usage is set, and usage.total_tokens.
Response(i) == ResponseOf(provider, i)

NoException == [kind |-> "None", call |-> 0]

NoOutcome ==
    [type |-> "none", exc |-> "none", msg |-> "none", attempts |-> 0,
     cause |-> NoException, content |-> 0, tokens_used |-> 0]

-----------------------------------------------------------------------------
(* OpenAIClient._make_request_with_retry *)

\* 2 ** n
RECURSIVE Pow2(_)
Pow2(n) == IF n <= 0 THEN 1 ELSE 2 * Pow2(n - 1)

\* a loop over range(self.max_retries - 1)
InRangeOneShort(a, n) == a < n - 1

\* a loop over range(self.max_retries + 1)
InRangeOneMore(a, n) == a < n + 1

\* range(self.max_retries) still yields the index a
InRange(a, n) == a < n

\* every OpenAIError handled by the first (retrying) clause
ExceptClauseBroad(kind) ==
    IF kind = "non_openai" THEN "uncaught" ELSE "RateLimitError"

\* The except clause that handles an exception of the given kind: the first
\* clause, in source order, whose class the exception is an instance of.
\* APITimeoutError is a subclass of APIConnectionError in the openai package,
\* so a timeout is handled by the APIConnectionError clause.
ExceptClause(kind) ==
    CASE kind = "rate_limit" -> "RateLimitError"
      [] kind \in {"connection", "timeout"} -> "APIConnectionError"
      [] kind = "api_error" -> "OpenAIError"
      [] OTHER -> "uncaught"

RetryingClauses == {"RateLimitError", "APIConnectionError", "APITimeoutError"}

\* linear backoff in the connection clause
WaitTimeLinear(clause, delay, a) ==
    IF clause = "APIConnectionError" THEN delay * (a + 1) ELSE delay * Pow2(a)

\* wait_time as computed in the clause that caught the exception
WaitTime(clause, delay, a) ==
    CASE clause = "RateLimitError" -> delay * Pow2(a)
      [] clause = "APIConnectionError" -> delay * Pow2(a)
      [] clause = "APITimeoutError" -> delay * Pow2(a)
      [] OTHER -> 0

\* The error raised after the loop: "Failed after {max_retries} retries:
\* {last_exception}" from last_exception
ExhaustedError(n, last) ==
    [NoOutcome EXCEPT !.type = "raised", !.exc = "OpenAIClientError",
                      !.msg = "Failed after retries", !.attempts = n,
                      !.cause = last]

\* raise OpenAIClientError(f"OpenAI API error: {e}") from e
ApiError(e) ==
    [NoOutcome EXCEPT !.type = "raised", !.exc = "OpenAIClientError",
                      !.msg = "OpenAI API error", !.cause = e]

\* an exception no clause catches leaves the function as it is
Propagated(e) ==
    [NoOutcome EXCEPT !.type = "raised", !.exc = e.kind, !.msg = "propagated",
                      !.cause = e]

\* return content, tokens_used
Returned(r) ==
    [NoOutcome EXCEPT !.type = "returned", !.content = r.content,
                      !.tokens_used = IF r.has_usage THEN r.total_tokens ELSE 0]

\* chat_completion calls _make_request_with_retry: the loop is entered, or,
\* when range(max_retries) is empty, the code after the loop runs at once.
BeginRequest ==
    /\ cpc = "pending"
    /\ IF InRange(0, max_retries)
       THEN /\ cpc' = "attempting"
            /\ outcome' = outcome
       ELSE /\ cpc' = "failed"
            /\ outcome' = ExhaustedError(max_retries, last_exception)
    /\ UNCHANGED <<max_retries, retry_delay, provider, attempt, calls,
                   last_exception, sleeps>>
    /\ UNCHANGED <<workerVars, tailorVars, pureVars>>

\* await self._client.chat.completions.create(**kwargs) returns a response
TransportReturns ==
    /\ cpc = "attempting"
    /\ ProviderOutcome(calls + 1) \in Responses
    /\ calls' = calls + 1
    /\ cpc' = "success"
    /\ outcome' = Returned(Response(calls + 1))
    /\ UNCHANGED <<max_retries, retry_delay, provider, attempt,
                   last_exception, sleeps>>
    /\ UNCHANGED <<workerVars, tailorVars, pureVars>>

\* the transport raises: the matching except clause runs up to its
\* asyncio.sleep, or raises
TransportRaises ==
    /\ cpc = "attempting"
    /\ ProviderOutcome(calls + 1) \notin Responses
    /\ calls' = calls + 1
    /\ LET e == [kind |-> ProviderOutcome(calls + 1), call |-> calls + 1]
           clause == ExceptClause(e.kind)
       IN  IF clause \in RetryingClauses
           THEN /\ last_exception' = e
                /\ sleeps' = Append(sleeps, WaitTime(clause, retry_delay, attempt))
                /\ cpc' = "retrying"
                /\ outcome' = outcome
           ELSE /\ cpc' = "failed"
                /\ outcome' = IF clause = "OpenAIError" THEN ApiError(e)
                                                        ELSE Propagated(e)
                /\ UNCHANGED <<last_exception, sleeps>>
    /\ UNCHANGED <<max_retries, retry_delay, provider, attempt>>
    /\ UNCHANGED <<workerVars, tailorVars, pureVars>>

\* asyncio.sleep(wait_time) returns: the for loop takes its next index, or,
\* when the range is used up, the code after the loop raises
BackoffElapsed ==
    /\ cpc = "retrying"
    /\ attempt' = attempt + 1
    /\ IF InRange(attempt + 1, max_retries)
       THEN /\ cpc' = "attempting"
            /\ outcome' = outcome
       ELSE /\ cpc' = "failed"
            /\ outcome' = ExhaustedError(max_retries, last_exception)
    /\ UNCHANGED <<max_retries, retry_delay, provider, calls,
                   last_exception, sleeps>>
    /\ UNCHANGED <<workerVars, tailorVars, pureVars>>

\* Scripts of provider behaviour, one entry per invocation
RECURSIVE Scripts(_)
Scripts(n) ==
    IF n = 0 THEN {<<>>}
    ELSE {Append(s, o) : s \in Scripts(n - 1), o \in TransportOutcomes}

\* a client configured with max_retries up to n and a request not yet begun
ClientInitUpTo(n) ==
    /\ max_retries \in 0..n
    /\ retry_delay \in 1..MaxDelayCfg
    /\ provider \in Scripts(max_retries + 1)
    /\ cpc = "pending"
    /\ attempt = 0
    /\ calls = 0
    /\ last_exception = NoException
    /\ sleeps = <<>>
    /\ outcome = NoOutcome

ClientInit == ClientInitUpTo(MaxRetriesCfg)

\* no request is made: the client as constructed from the default Settings
ClientOff ==
    /\ max_retries = 3
    /\ retry_delay = 1
    /\ provider = <<"ok">>
    /\ cpc = "pending"
    /\ attempt = 0
    /\ calls = 0
    /\ last_exception = NoException
    /\ sleeps = <<>>
    /\ outcome = NoOutcome

-----------------------------------------------------------------------------
(* The broker and the messages *)

\* What a message body is: bytes json.loads rejects (bad_json), bytes that
\* are not valid UTF-8 (bad_utf8), a JSON value that is not an object
\* (not_object), an object without the fields of TailoringPayload
\* (bad_payload), a complete payload (ok).
BodyKinds == {"bad_json", "bad_utf8", "not_object", "bad_payload", "ok"}

\* json.loads(body): the decoded value, or the exception it raises
\* (UnicodeDecodeError is a ValueError but not a json.JSONDecodeError)
JsonLoads(body) ==
    CASE body = "bad_json" -> "JSONDecodeError"
      [] body = "bad_utf8" -> "UnicodeDecodeError"
      [] OTHER -> "value"

\* channel.basic_qos(prefetch_count=1)
prefetch_count == 1

\* max_retries of MonitoringService.connect_rabbitmq
connect_max_retries == 5

NewDelivery(m) ==
    [msg |-> m, settle |-> <<>>, published |-> FALSE, error |-> "none",
     exit |-> "running"]

\* the delivery the callback is working on
cur == Len(log)

IN_QUEUE == "job_to_tailor_queue"

OUT_QUEUE == "job_completed_queue"

CONSUME_QUEUE == "application_status_queue"

\* queue_declare(queue=..., durable=False)
DeclareQueuesTransient(names) == {[queue |-> q, durable |-> FALSE] : q \in names}

\* channel.queue_declare(queue=..., durable=True) for each of the names
DeclareQueues(names) == {[queue |-> q, durable |-> TRUE] : q \in names}

\* the result published without BasicProperties(delivery_mode=2)
OutMessageTransient(msg) ==
    [job_id |-> msg.id, status |-> "success", delivery_mode |-> 1]

\* TailoredOutput(job_id=payload.job_data.job_id, status="success", ...)
\* published with properties=pika.BasicProperties(delivery_mode=2), the
\* persistent delivery mode
OutMessage(msg) ==
    [job_id |-> msg.id, status |-> "success", delivery_mode |-> 2]

InCallback ==
    {"received", "processing", "publishing", "acking", "db",
     "nack_requeue", "nack_discard"}

\* basic_qos is never called: the broker pushes without limit
QosUnlimited(n) == TRUE

\* channel.basic_qos(prefetch_count=1), called before basic_consume: the
\* broker pushes a message only while fewer than prefetch_count are unsettled
QosAllows(n) == n < prefetch_count

\* delivered messages whose callback has not been entered yet
Pending ==
    IF wpc \in InCallback THEN Len(unacked) - 1 ELSE Len(unacked)

\* The broker pushes the next ready message to the consuming worker.
Deliver ==
    /\ wpc \in {"waiting"} \cup InCallback
    /\ inQueue # <<>>
    /\ QosAllows(Len(unacked))
    /\ Len(log) + Pending < MaxDeliveries
    /\ unacked' = Append(unacked, Head(inQueue))
    /\ inQueue' = Tail(inQueue)
    /\ UNCHANGED <<worker, wpc, outQueue, log, retry_count>>
    /\ UNCHANGED queues
    /\ UNCHANGED <<clientVars, tailorVars, pureVars>>

\* start_consuming dispatches the oldest delivered message: the callback is
\* entered (callback / process_status_log)
EnterCallback ==
    /\ wpc = "waiting"
    /\ unacked # <<>>
    /\ log' = Append(log, NewDelivery(Head(unacked)))
    /\ wpc' = "received"
    /\ UNCHANGED <<worker, inQueue, unacked, outQueue, retry_count>>
    /\ UNCHANGED queues
    /\ UNCHANGED <<clientVars, tailorVars, pureVars>>

\* The broker returns to the queue what a consumer whose connection is gone
\* has left unsettled.
BrokerRequeue ==
    /\ wpc \in {"start", "crashed"}
    /\ unacked # <<>>
    /\ inQueue' = unacked \o inQueue
    /\ unacked' = <<>>
    /\ UNCHANGED <<worker, wpc, outQueue, log, retry_count>>
    /\ UNCHANGED queues
    /\ UNCHANGED <<clientVars, tailorVars, pureVars>>

\* The worker process is killed while a callback runs.
WorkerKilled ==
    /\ wpc \in InCallback
    /\ wpc' = "crashed"
    /\ log' = [log EXCEPT ![cur].exit = "killed"]
    /\ UNCHANGED <<worker, inQueue, unacked, outQueue, retry_count>>
    /\ UNCHANGED queues
    /\ UNCHANGED <<clientVars, tailorVars, pureVars>>

-----------------------------------------------------------------------------
(* The tailoring worker: files/services/llm-service/app/worker.py *)

\* main(): connect, declare both queues, basic_qos, basic_consume,
\* start_consuming
TwConnectOk ==
    /\ worker = "tailoring"
    /\ wpc = "start"
    /\ unacked = <<>>
    /\ wpc' = "waiting"
    /\ retry_count' = 0
    /\ queues' = queues \cup DeclareQueues({IN_QUEUE, OUT_QUEUE})
    /\ UNCHANGED <<worker, inQueue, unacked, outQueue, log>>
    /\ UNCHANGED <<clientVars, tailorVars, pureVars>>

\* main() raises AMQPConnectionError: the while True loop sleeps 5 seconds
\* and calls main() again
TwConnectFails ==
    /\ worker = "tailoring"
    /\ wpc = "start"
    /\ retry_count < MaxConnectFailures
    /\ retry_count' = retry_count + 1
    /\ UNCHANGED <<worker, wpc, inQueue, unacked, outQueue, log>>
    /\ UNCHANGED queues
    /\ UNCHANGED <<clientVars, tailorVars, pureVars>>

\* payload_dict = json.loads(body), before the try: an exception leaves the
\* callback, start_consuming and main(), and, not being an
\* AMQPConnectionError, the process
TwLoads ==
    /\ worker = "tailoring"
    /\ wpc = "received"
    /\ IF JsonLoads(log[cur].msg.body) = "value"
       THEN /\ wpc' = "processing"
            /\ log' = log
       ELSE /\ wpc' = "crashed"
            /\ log' = [log EXCEPT ![cur].exit = "raised",
                                  ![cur].error = JsonLoads(log[cur].msg.body)]
    /\ UNCHANGED <<worker, inQueue, unacked, outQueue, retry_count>>
    /\ UNCHANGED queues
    /\ UNCHANGED <<clientVars, tailorVars, pureVars>>

\* TailoringPayload(**payload_dict) and the construction of the response;
\* an exception is caught by `except Exception`, after which the ack follows
TwValidate ==
    /\ worker = "tailoring"
    /\ wpc = "processing"
    /\ IF log[cur].msg.body = "ok"
       THEN /\ wpc' = "publishing"
            /\ log' = log
       ELSE /\ wpc' = "acking"
            /\ log' = [log EXCEPT ![cur].error =
                         IF log[cur].msg.body = "not_object" THEN "TypeError"
                                                             ELSE "ValidationError"]
    /\ UNCHANGED <<worker, inQueue, unacked, outQueue, retry_count>>
    /\ UNCHANGED queues
    /\ UNCHANGED <<clientVars, tailorVars, pureVars>>

\* channel.basic_publish(routing_key=OUT_QUEUE, body=response.json(),
\* properties=BasicProperties(delivery_mode=2))
TwPublishOk ==
    /\ worker = "tailoring"
    /\ wpc = "publishing"
    /\ outQueue' = Append(outQueue, OutMessage(log[cur].msg))
    /\ log' = [log EXCEPT ![cur].published = TRUE]
    /\ wpc' = "acking"
    /\ UNCHANGED <<worker, inQueue, unacked, retry_count>>
    /\ UNCHANGED queues
    /\ UNCHANGED <<clientVars, tailorVars, pureVars>>

\* basic_publish raises: caught by `except Exception`, the ack follows
TwPublishFails ==
    /\ worker = "tailoring"
    /\ wpc = "publishing"
    /\ log' = [log EXCEPT ![cur].error = "AMQPError"]
    /\ wpc' = "acking"
    /\ UNCHANGED <<worker, inQueue, unacked, outQueue, retry_count>>
    /\ UNCHANGED queues
    /\ UNCHANGED <<clientVars, tailorVars, pureVars>>

\* ch.basic_ack(delivery_tag=method.delivery_tag), after the try statement
TwAckOk ==
    /\ worker = "tailoring"
    /\ wpc = "acking"
    /\ log' = [log EXCEPT ![cur].settle = Append(@, "ack"),
                          ![cur].exit = "returned"]
    /\ unacked' = Tail(unacked)
    /\ wpc' = "waiting"
    /\ UNCHANGED <<worker, inQueue, outQueue, retry_count>>
    /\ UNCHANGED queues
    /\ UNCHANGED <<clientVars, tailorVars, pureVars>>

\* basic_ack raises: an AMQPConnectionError reaches the while True loop,
\* which sleeps and calls main() again; any other exception ends the process
TwAckFails ==
    /\ worker = "tailoring"
    /\ wpc = "acking"
    /\ \E e \in {"AMQPConnectionError", "AMQPChannelError"} :
         /\ log' = [log EXCEPT ![cur].settle = Append(@, "ack"),
                               ![cur].exit = "raised"]
         /\ wpc' = IF e = "AMQPConnectionError" THEN "start" ELSE "crashed"
    /\ UNCHANGED <<worker, inQueue, unacked, outQueue, retry_count>>
    /\ UNCHANGED queues
    /\ UNCHANGED <<clientVars, tailorVars, pureVars>>

-----------------------------------------------------------------------------
(* The monitoring worker: services/agent-monitoring-service/app/worker.py *)

\* connect_rabbitmq: an attempt succeeds; start_consuming sets the prefetch
\* and consumes
MonConnectOk ==
    /\ worker = "monitoring"
    /\ wpc = "start"
    /\ retry_count < connect_max_retries
    /\ wpc' = "waiting"
    /\ queues' = queues \cup DeclareQueues({CONSUME_QUEUE})
    /\ UNCHANGED <<worker, inQueue, unacked, outQueue, log, retry_count>>
    /\ UNCHANGED <<clientVars, tailorVars, pureVars>>

\* connect_rabbitmq: an attempt fails, retry_count += 1, time.sleep(5)
MonConnectFails ==
    /\ worker = "monitoring"
    /\ wpc = "start"
    /\ retry_count < connect_max_retries
    /\ retry_count' = retry_count + 1
    /\ UNCHANGED <<worker, wpc, inQueue, unacked, outQueue, log>>
    /\ UNCHANGED queues
    /\ UNCHANGED <<clientVars, tailorVars, pureVars>>

\* connect_rabbitmq returns False and start_consuming returns
MonGiveUp ==
    /\ worker = "monitoring"
    /\ wpc = "start"
    /\ ~(retry_count < connect_max_retries)
    /\ wpc' = "stopped"
    /\ UNCHANGED <<worker, inQueue, unacked, outQueue, log, retry_count>>
    /\ UNCHANGED queues
    /\ UNCHANGED <<clientVars, tailorVars, pureVars>>

\* log_data = json.loads(body); job_id = log_data.get('job_id'): a
\* JSONDecodeError is caught by the first clause, anything else (a
\* UnicodeDecodeError, the AttributeError of a value without .get) by
\* `except Exception`
MonLoads ==
    /\ worker = "monitoring"
    /\ wpc = "received"
    /\ LET body == log[cur].msg.body
       IN  CASE JsonLoads(body) = "JSONDecodeError" ->
                  /\ wpc' = "nack_discard"
                  /\ log' = [log EXCEPT ![cur].error = "JSONDecodeError"]
             [] JsonLoads(body) = "UnicodeDecodeError" ->
                  /\ wpc' = "nack_requeue"
                  /\ log' = [log EXCEPT ![cur].error = "UnicodeDecodeError"]
             [] JsonLoads(body) = "value" /\ body = "not_object" ->
                  /\ wpc' = "nack_requeue"
                  /\ log' = [log EXCEPT ![cur].error = "AttributeError"]
             [] OTHER ->
                  /\ wpc' = "db"
                  /\ log' = log
    /\ UNCHANGED <<worker, inQueue, unacked, outQueue, retry_count>>
    /\ UNCHANGED queues
    /\ UNCHANGED <<clientVars, tailorVars, pureVars>>

\* db = SessionLocal(); try ... finally db.close(): done
MonDbOk ==
    /\ worker = "monitoring"
    /\ wpc = "db"
    /\ wpc' = "acking"
    /\ UNCHANGED <<worker, inQueue, unacked, outQueue, log, retry_count>>
    /\ UNCHANGED queues
    /\ UNCHANGED <<clientVars, tailorVars, pureVars>>

\* the database session raises: the exception reaches `except Exception`
MonDbFails ==
    /\ worker = "monitoring"
    /\ wpc = "db"
    /\ wpc' = "nack_requeue"
    /\ log' = [log EXCEPT ![cur].error = "DatabaseError"]
    /\ UNCHANGED <<worker, inQueue, unacked, outQueue, retry_count>>
    /\ UNCHANGED queues
    /\ UNCHANGED <<clientVars, tailorVars, pureVars>>

\* ch.basic_ack(delivery_tag=method.delivery_tag), inside the try
MonAckOk ==
    /\ worker = "monitoring"
    /\ wpc = "acking"
    /\ log' = [log EXCEPT ![cur].settle = Append(@, "ack"),
                          ![cur].exit = "returned"]
    /\ unacked' = Tail(unacked)
    /\ wpc' = "waiting"
    /\ UNCHANGED <<worker, inQueue, outQueue, retry_count>>
    /\ UNCHANGED queues
    /\ UNCHANGED <<clientVars, tailorVars, pureVars>>

\* basic_ack raises inside the try: `except Exception` runs
MonAckFails ==
    /\ worker = "monitoring"
    /\ wpc = "acking"
    /\ log' = [log EXCEPT ![cur].settle = Append(@, "ack")]
    /\ wpc' = "nack_requeue"
    /\ UNCHANGED <<worker, inQueue, unacked, outQueue, retry_count>>
    /\ UNCHANGED queues
    /\ UNCHANGED <<clientVars, tailorVars, pureVars>>

\* ch.basic_nack(delivery_tag=..., requeue=False | True): the broker drops
\* the message or puts it back
MonNackOk ==
    /\ worker = "monitoring"
    /\ wpc \in {"nack_requeue", "nack_discard"}
    /\ log' = [log EXCEPT ![cur].settle = Append(@, wpc),
                          ![cur].exit = "returned"]
    /\ inQueue' = IF wpc = "nack_requeue" THEN <<Head(unacked)>> \o inQueue
                                         ELSE inQueue
    /\ unacked' = Tail(unacked)
    /\ wpc' = "waiting"
    /\ UNCHANGED <<worker, outQueue, retry_count>>
    /\ UNCHANGED queues
    /\ UNCHANGED <<clientVars, tailorVars, pureVars>>

\* basic_nack raises in an except clause: the exception leaves the callback
\* and start_consuming's `except Exception` logs it; the consumer thread ends
MonNackFails ==
    /\ worker = "monitoring"
    /\ wpc \in {"nack_requeue", "nack_discard"}
    /\ log' = [log EXCEPT ![cur].settle = Append(@, wpc),
                          ![cur].exit = "raised"]
    /\ wpc' = "crashed"
    /\ UNCHANGED <<worker, inQueue, unacked, outQueue, retry_count>>
    /\ UNCHANGED queues
    /\ UNCHANGED <<clientVars, tailorVars, pureVars>>

-----------------------------------------------------------------------------
(* Specifications *)

RECURSIVE Bodies(_)
Bodies(n) ==
    IF n = 0 THEN {<<>>}
    ELSE {Append(s, b) : s \in Bodies(n - 1), b \in BodyKinds}

\* the queue holds 1..MaxMsgs messages, message i having job_id i
WorkerInit ==
    /\ worker \in {"tailoring", "monitoring"}
    /\ wpc = "start"
    /\ \E n \in 1..MaxMsgs : \E bs \in Bodies(n) :
         inQueue = [i \in 1..n |-> [id |-> i, body |-> bs[i]]]
    /\ unacked = <<>>
    /\ outQueue = <<>>
    /\ log = <<>>
    /\ retry_count = 0
    /\ queues = {}

\* no worker process runs
WorkerOff ==
    /\ worker = "none"
    /\ wpc = "off"
    /\ inQueue = <<>>
    /\ unacked = <<>>
    /\ outQueue = <<>>
    /\ log = <<>>
    /\ retry_count = 0
    /\ queues = {}

-----------------------------------------------------------------------------
(* The text of the model's reply and OpenAIClient.parse_json_response *)

MaxTextLen == 5

\* A text is a sequence of pieces: a code fence of three backquotes
\* ("fence"), the word json, white space,
\* the text of a JSON object ("obj", which decodes to reply_json), the text
\* of a JSON array ("arr") and a run of text that is not JSON ("x").  A
\* JSON object with one string member is written piece by piece: "open" is
\* the text up to and including the quote that opens the string, "close"
\* the text from the quote that closes it, and the pieces between them are
\* the characters of the string, which may hold a code fence.
Pieces == {"fence", "json", " ", "obj", "arr", "x", "open", "close"}

\* the pieces a JSON string may hold unescaped
StringPieces == {"fence", "json", " ", "x"}

\* len(): the number of characters of a piece and of a text
PieceLen(p) ==
    CASE p = "fence" -> 3
      [] p = "json" -> 4
      [] p = " " -> 1
      [] p = "obj" -> 150
      [] p = "arr" -> 2
      [] p = "x" -> 120
      [] p = "open" -> 7
      [] p = "close" -> 2

RECURSIVE TextLen(_)
TextLen(s) == IF s = <<>> THEN 0 ELSE PieceLen(Head(s)) + TextLen(Tail(s))

\* response[:200]
PrefixLen == 200

Min2(a, b) == IF a <= b THEN a ELSE b

Max2(a, b) == IF a >= b THEN a ELSE b

JsonTexts == {"obj", "arr"}

RECURSIVE Texts(_)
Texts(n) ==
    IF n = 0 THEN {<<>>}
    ELSE Texts(n - 1) \cup
         {Append(s, p) : s \in {t \in Texts(n - 1) : Len(t) = n - 1}, p \in Pieces}

SetMin(S) == CHOOSE i \in S : \A j \in S : i <= j

RECURSIVE LStrip(_)
LStrip(s) == IF s # <<>> /\ Head(s) = " " THEN LStrip(Tail(s)) ELSE s

RECURSIVE RStrip(_)
RStrip(s) ==
    IF s # <<>> /\ s[Len(s)] = " " THEN RStrip(SubSeq(s, 1, Len(s) - 1)) ELSE s

\* str.strip()
Strip(s) == RStrip(LStrip(s))

\* the fields of a tailored_resume object; each field is absent or has a
\* JSON value, tagged with the value's type
Field(t, v) == [t |-> t, v |-> v]

NoFields ==
    [fit_score |-> Field("absent", 0), summary |-> Field("absent", ""),
     skills_highlighted |-> Field("absent", <<>>),
     experience |-> Field("absent", <<>>)]

\* a JSON object whose tailored_resume field is absent, null or an object
JsonObject(t, f) == [t |-> "object", tailored_resume |-> [t |-> t, f |-> f]]

\* a JSON array: a value that is not an object
JsonArray == [t |-> "array", tailored_resume |-> [t |-> "absent", f |-> NoFields]]

\* carried is the number of characters of the reply that an exception holds
NotParsed == [kind |-> "none", value |-> JsonArray, exc |-> "none", carried |-> 0]

ParseReturned(v) ==
    [kind |-> "returned", value |-> v, exc |-> "none", carried |-> 0]

ParseRaised(e, n) ==
    [kind |-> "raised", value |-> JsonArray, exc |-> e, carried |-> n]

\* the text of a JSON object with one string member
IsStringObject(s) ==
    /\ Len(s) >= 2
    /\ s[1] = "open"
    /\ s[Len(s)] = "close"
    /\ \A i \in 2..(Len(s) - 1) : s[i] \in StringPieces

\* json.loads accepts exactly one JSON text with white space around it
JsonLoadsOk(s) ==
    \/ Len(Strip(s)) = 1 /\ Strip(s)[1] \in JsonTexts
    \/ IsStringObject(Strip(s))

\* the value json.loads returns for such a text; an object with one string
\* member has no tailored_resume
Decoded(s, obj) ==
    CASE Strip(s)[1] = "obj" -> obj
      [] Strip(s)[1] = "arr" -> JsonArray
      [] OTHER -> JsonObject("absent", NoFields)

\* json.loads(json_str) inside the except clause: its JSONDecodeError is
\* raised from within the handler, which no clause catches; the error's doc
\* attribute is the whole of json_str
FencedLoads(json_str, obj) ==
    IF JsonLoadsOk(json_str) THEN ParseReturned(Decoded(json_str, obj))
    ELSE ParseRaised("JSONDecodeError", TextLen(Strip(json_str)))

\* response.find(fence + "json"): the position of the first fence followed at
\* once by the word json, 0 when there is none (positions count from 1)
FindFenceJson(s) ==
    LET hits == {i \in 1..(Len(s) - 1) : s[i] = "fence" /\ s[i + 1] = "json"}
    IN  IF hits = {} THEN 0 ELSE SetMin(hits)

\* response.find("fence", start)
FindFence(s, start) ==
    LET hits == {i \in start..Len(s) : s[i] = "fence"}
    IN  IF hits = {} THEN 0 ELSE SetMin(hits)

\* raise OpenAIClientError(f"Failed to parse JSON response: {response[:200]}")
ParseError(response) ==
    ParseRaised("OpenAIClientError", Min2(PrefixLen, TextLen(response)))

\* a JSON text wrapped in a json code fence and in a plain code fence, the
\* fences on lines of their own
JsonFenced(J) == <<"fence", "json", " ">> \o J \o <<" ", "fence">>

PlainFenced(J) == <<"fence", " ">> \o J \o <<" ", "fence">>

\* the text inside such a wrapping, <<>> when s is not one
JsonUnfenced(s) ==
    IF /\ Len(s) >= 5
       /\ SubSeq(s, 1, 3) = <<"fence", "json", " ">>
       /\ SubSeq(s, Len(s) - 1, Len(s)) = <<" ", "fence">>
    THEN SubSeq(s, 4, Len(s) - 2) ELSE <<>>

PlainUnfenced(s) ==
    IF /\ Len(s) >= 4
       /\ SubSeq(s, 1, 2) = <<"fence", " ">>
       /\ SubSeq(s, Len(s) - 1, Len(s)) = <<" ", "fence">>
    THEN SubSeq(s, 3, Len(s) - 2) ELSE <<>>

\* a fenced block, tagged json or untagged, that holds the one piece p
Block(tagged, p) ==
    <<"fence">> \o (IF tagged THEN <<"json">> ELSE <<>>) \o <<" ", p, " ", "fence">>

\* replies that hold two fenced blocks, a line break between them
TwoBlocks ==
    {Block(t1, p1) \o <<" ">> \o Block(t2, p2) :
        t1 \in BOOLEAN, t2 \in BOOLEAN, p1 \in {"obj", "arr", "x"}, p2 \in {"obj", "arr", "x"}}

\* the text of a JSON object that json.loads decodes directly
IsJsonObjectText(J) == JsonLoadsOk(J) /\ Strip(J)[1] # "arr"

ParseJsonResponse(response, obj) ==
    IF JsonLoadsOk(response) THEN ParseReturned(Decoded(response, obj))
    ELSE IF FindFenceJson(response) # 0
    THEN LET start == FindFenceJson(response) + 2
             end == FindFence(response, start)
         IN  IF end # 0
             THEN FencedLoads(SubSeq(response, start, end - 1), obj)
             ELSE ParseError(response)
    ELSE IF FindFence(response, 1) # 0
    THEN LET start == FindFence(response, 1) + 1
             end == FindFence(response, start)
         IN  IF end # 0
             THEN FencedLoads(SubSeq(response, start, end - 1), obj)
             ELSE ParseError(response)
    ELSE ParseError(response)

-----------------------------------------------------------------------------
(* ResumeTailorService.tailor_resume and the /tailor route *)

MaxSkills == 6
MaxExperience == 2
MaxTailorRetries == 2

SkillPool == <<"python", "go", "sql", "rust", "aws", "kafka", "tla", "bash">>

\* the experience entries of the resume, by title and company
ResumeEntries ==
    <<[title |-> "Engineer", company |-> "Acme"],
      [title |-> "Analyst", company |-> "Initech"]>>

\* the entries the model may write: those of the resume and one that has a
\* title of the resume at a company the resume does not name
ReplyEntries ==
    {ResumeEntries[1], ResumeEntries[2], [title |-> "Engineer", company |-> "Globex"]}

RECURSIVE EntryLists(_)
EntryLists(n) ==
    IF n = 0 THEN {<<>>}
    ELSE EntryLists(n - 1) \cup
         {Append(s, e) : s \in {t \in EntryLists(n - 1) : Len(t) = n - 1},
                         e \in ReplyEntries}

Resumes ==
    [summary : {"", "Original summary"},
     skills : {SubSeq(SkillPool, 1, n) : n \in 0..MaxSkills},
     experience : {SubSeq(ResumeEntries, 1, n) : n \in 0..Len(ResumeEntries)}]

FitScores == {-10, -1, 0, 50, 100, 101, 150}

FitFields ==
    {Field("absent", 0), Field("null", 0), Field("str", 0)}
        \cup {Field("int", n) : n \in FitScores}

SummaryFields ==
    {Field("absent", ""), Field("null", ""), Field("str", ""),
     Field("str", "Tailored summary")}

SkillsFields ==
    {Field("absent", <<>>), Field("list", <<>>), Field("list", <<"tla">>)}

ExperienceFields ==
    {Field("absent", <<>>)} \cup {Field("list", e) : e \in EntryLists(MaxExperience)}

TailoredObjects ==
    [fit_score : FitFields, summary : SummaryFields,
     skills_highlighted : SkillsFields, experience : ExperienceFields]

\* the JSON values parse_json_response may return
JsonValues ==
    {JsonArray, JsonObject("absent", NoFields), JsonObject("null", NoFields)}
        \cup {JsonObject("object", f) : f \in TailoredObjects}

\* dict.get(key, default)
Get(field, default) == IF field.t = "absent" THEN default ELSE field

ClampUpperOnly(x) == Min2(100, x)

\* max(0, min(100, fit_score))
Clamp(x) == Max2(0, Min2(100, x))

FirstFiveAll(skills) == skills

\* resume.skills[:5]
FirstFive(skills) == SubSeq(skills, 1, Min2(5, Len(skills)))

\* the loop that builds tailored_experience: one TailoredExperience per
\* entry of the reply, with the reply's title and company
TailoredExperienceList(entries) ==
    [i \in 1..Len(entries) |->
        [title |-> entries[i].title, company |-> entries[i].company]]

\* pydantic accepts TailoredResume(summary: str, skills_highlighted: List[str],
\* fit_score: int, ge=0, le=100)
ValidTailoredResume(summary, skills, fit_score) ==
    /\ summary.t = "str"
    /\ skills.t = "list"
    /\ fit_score >= 0
    /\ fit_score <= 100

NoTailored ==
    [summary |-> "", experience |-> <<>>, skills_highlighted |-> <<>>,
     fit_score |-> 0]

NoTailorOutcome ==
    [type |-> "none", exc |-> "none", cause |-> "none",
     tailored_resume |-> NoTailored, tokens_used |-> 0]

\* return TailorResumeResponse(tailored_resume=..., tokens_used=...)
TailorReturned(t, tokens) ==
    [NoTailorOutcome EXCEPT !.type = "returned", !.tailored_resume = t,
                            !.tokens_used = tokens]

TailorExceptSwallow(e) == TailorReturned(NoTailored, 0)

\* the except clauses of tailor_resume: an OpenAIClientError is raised
\* again, any other Exception is raised as OpenAIClientError from it
TailorExcept(e) ==
    [NoTailorOutcome EXCEPT !.type = "raised", !.exc = "OpenAIClientError",
                            !.cause = e]

\* tailor_resume from result.get("tailored_resume", {}) to its return or
\* to the exception its except clauses raise
TailorResult(result, res, tokens) ==
    IF result.t # "object" THEN TailorExcept("AttributeError")
    ELSE LET tailored_data == Get(result.tailored_resume,
                                  [t |-> "object", f |-> NoFields])
         IN
         IF tailored_data.t # "object" THEN TailorExcept("AttributeError")
         ELSE LET f == tailored_data.f
                  experience == Get(f.experience, Field("list", <<>>))
                  raw_fit == Get(f.fit_score, Field("int", 50))
                  summary == Get(f.summary, Field("str", res.summary))
                  skills == Get(f.skills_highlighted,
                                Field("list", FirstFive(res.skills)))
              IN
              IF raw_fit.t # "int" THEN TailorExcept("TypeError")
              ELSE IF ~ValidTailoredResume(summary, skills, Clamp(raw_fit.v))
              THEN TailorExcept("ValidationError")
              ELSE TailorReturned(
                       [summary |-> summary.v,
                        experience |-> TailoredExperienceList(experience.v),
                        skills_highlighted |-> skills.v,
                        fit_score |-> Clamp(raw_fit.v)],
                       tokens)

\* the except clauses of the route: OpenAIClientError, ValueError, Exception
RouterExcept(exc) ==
    CASE exc = "OpenAIClientError" -> 503
      [] exc \in {"ValueError", "JSONDecodeError", "ValidationError"} -> 422
      [] OTHER -> 500

RouterStatus(o) == IF o.type = "returned" THEN 200 ELSE RouterExcept(o.exc)

\* the resume of the request when the whole request is followed
SampleResume ==
    [summary |-> "Original summary", skills |-> SubSeq(SkillPool, 1, 3),
     experience |-> ResumeEntries]

\* replies of the model when the whole request is followed
SampleTexts ==
    {<<"obj">>, <<"fence", "json", " ", "obj", " ", "fence">>,
     <<"fence", "x", "fence">>, <<"fence", "json", "obj">>, <<"x">>, <<"arr">>}

SampleReplies ==
    {JsonObject("absent", NoFields),
     JsonObject("object", [NoFields EXCEPT !.fit_score = Field("int", 150)]),
     JsonObject("object", [NoFields EXCEPT !.summary = Field("null", "")]),
     JsonObject("object",
                [NoFields EXCEPT !.summary = Field("str", "Tailored summary"),
                                 !.experience = Field("list", <<ResumeEntries[1]>>)])}

\* await self.openai_client.chat_completion(...) returns (response_text,
\* tokens_used)
ChatCompletionReturns ==
    /\ tpc = "awaiting"
    /\ cpc = "success"
    /\ \E text \in SampleTexts, obj \in SampleReplies :
          /\ response_text' = text
          /\ reply_json' = obj
    /\ tpc' = "parsing"
    /\ UNCHANGED <<resume, parsed, tailor_outcome, http_status>>
    /\ UNCHANGED <<clientVars, workerVars, pureVars>>

\* chat_completion raises: the except clauses of tailor_resume run
ChatCompletionRaises ==
    /\ tpc = "awaiting"
    /\ cpc = "failed"
    /\ tailor_outcome' = TailorExcept(outcome.exc)
    /\ tpc' = "done"
    /\ UNCHANGED <<resume, reply_json, response_text, parsed, http_status>>
    /\ UNCHANGED <<clientVars, workerVars, pureVars>>

\* await self.openai_client.parse_json_response(response_text)
ParseReply ==
    /\ tpc = "parsing"
    /\ parsed' = ParseJsonResponse(response_text, reply_json)
    /\ tpc' = "parsed"
    /\ UNCHANGED <<resume, reply_json, response_text, tailor_outcome, http_status>>
    /\ UNCHANGED <<clientVars, workerVars, pureVars>>

\* the rest of tailor_resume: the result is built and returned, or an
\* except clause raises
BuildResult ==
    /\ tpc = "parsed"
    /\ tailor_outcome' =
          IF parsed.kind = "raised" THEN TailorExcept(parsed.exc)
          ELSE TailorResult(parsed.value, resume, outcome.tokens_used)
    /\ tpc' = "done"
    /\ UNCHANGED <<resume, reply_json, response_text, parsed, http_status>>
    /\ UNCHANGED <<clientVars, workerVars, pureVars>>

\* the route returns the response or raises HTTPException
RouterResponds ==
    /\ tpc = "done"
    /\ http_status' = RouterStatus(tailor_outcome)
    /\ tpc' = "responded"
    /\ UNCHANGED <<resume, reply_json, response_text, parsed, tailor_outcome>>
    /\ UNCHANGED <<clientVars, workerVars, pureVars>>

\* no tailoring request is made
TailorOff ==
    /\ tpc = "off"
    /\ resume = SampleResume
    /\ reply_json = JsonObject("absent", NoFields)
    /\ response_text = <<>>
    /\ parsed = NotParsed
    /\ tailor_outcome = NoTailorOutcome
    /\ http_status = 0

-----------------------------------------------------------------------------
(* OpenAIClient._parse_tailored_response (services/llm-service/app) *)

MaxLines == 4

SectionNames == {"role_fit", "experience_justification", "summary", "tailored_resume"}

\* A line of the reply: the header marker it holds ("none" for a line
\* without one), whether it holds a colon, and its text: the stripped text
\* after the colon for a header line, the line itself otherwise.
Line(h, c, t) == [header |-> h, colon |-> c, text |-> t]

ContentLine(t) == Line("none", FALSE, t)

\* the lines a reply is made of: "ROLE_FIT: a" and so on, "SUMMARY:",
\* "ROLE_FIT" without a colon, two lines of text and the empty line
Lines ==
    {Line(h, TRUE, "a") : h \in SectionNames}
        \cup {Line("summary", TRUE, ""), Line("role_fit", FALSE, "")}
        \cup {ContentLine("u"), ContentLine("v"), ContentLine("")}

\* response.split("\n") has at least one line
RECURSIVE Replies(_)
Replies(n) ==
    IF n = 1 THEN {<<l>> : l \in Lines}
    ELSE Replies(n - 1) \cup
         {Append(s, l) : s \in {t \in Replies(n - 1) : Len(t) = n - 1}, l \in Lines}

IsBlank(l) == l.header = "none" /\ l.text = ""

RECURSIVE LStripLines(_)
LStripLines(s) == IF s # <<>> /\ IsBlank(Head(s)) THEN LStripLines(Tail(s)) ELSE s

RECURSIVE RStripLines(_)
RStripLines(s) ==
    IF s # <<>> /\ IsBlank(s[Len(s)]) THEN RStripLines(SubSeq(s, 1, Len(s) - 1))
    ELSE s

\* "\n".join(current_content).strip(): the text as its lines, the empty
\* text as <<>>
JoinStrip(content) == RStripLines(LStripLines(content))

\* a text that is one empty line is the empty text
Text(ls) == IF ls = <<ContentLine("")>> THEN <<>> ELSE ls

NoSections == [s \in SectionNames |-> <<>>]

\* if current_section: sections[current_section] = ...
SaveSection(secs, sec, content) ==
    IF sec = "None" THEN secs ELSE [secs EXCEPT ![sec] = JoinStrip(content)]

\* the content a header line starts its section with: after_colon, when
\* the line holds a colon and text follows it
AfterColon(l) ==
    IF l.colon /\ l.text # "" THEN <<ContentLine(l.text)>> ELSE <<>>

FallbackStripped(resp) == JoinStrip(resp)

\* sections["tailored_resume"] = response
Fallback(resp) == Text(resp)

\* one turn of the for loop
ScanLine ==
    /\ ppc = "scanning"
    /\ line_no < Len(response_lines)
    /\ LET line == response_lines[line_no + 1]
       IN  /\ line_no' = line_no + 1
           /\ IF line.header # "none"
              THEN /\ sections' = SaveSection(sections, current_section, current_content)
                   /\ current_section' = line.header
                   /\ current_content' = AfterColon(line)
              ELSE IF current_section # "None"
              THEN /\ current_content' = Append(current_content, line)
                   /\ UNCHANGED <<sections, current_section>>
              ELSE UNCHANGED <<sections, current_section, current_content>>
    /\ UNCHANGED <<ppc, response_lines>>
    /\ UNCHANGED <<clientVars, workerVars, tailorVars, scoreVars, restVars>>

\* after the loop: the last section is saved, the reply goes to
\* tailored_resume when every section is empty, and sections is returned
ReturnSections ==
    /\ ppc = "scanning"
    /\ line_no = Len(response_lines)
    /\ LET saved == SaveSection(sections, current_section, current_content)
       IN  sections' =
              IF \A s \in SectionNames : saved[s] = <<>>
              THEN [saved EXCEPT !["tailored_resume"] = Fallback(response_lines)]
              ELSE saved
    /\ ppc' = "returned"
    /\ UNCHANGED <<response_lines, line_no, current_section, current_content>>
    /\ UNCHANGED <<clientVars, workerVars, tailorVars, scoreVars, restVars>>

SectionsInit ==
    /\ ppc = "scanning"
    /\ response_lines \in Replies(MaxLines)
    /\ line_no = 0
    /\ current_section = "None"
    /\ current_content = <<>>
    /\ sections = NoSections

\* _parse_tailored_response is not called
SectionsOff ==
    /\ ppc = "off"
    /\ response_lines = <<ContentLine("")>>
    /\ line_no = 0
    /\ current_section = "None"
    /\ current_content = <<>>
    /\ sections = NoSections

-----------------------------------------------------------------------------
(* extract_skills_from_resume (src/processing.py) *)

MaxResumeLines == 3

\* An item of a bullet line: its words in lower case, whether it is written
\* with capital letters and whether white space surrounds it.  The item of
\* no words is the empty text between two commas or after the last one.
Item(w, caps, pad) == [words |-> w, caps |-> caps, pad |-> pad]

Items ==
    {Item(<<"python">>, FALSE, FALSE), Item(<<"python">>, TRUE, TRUE),
     Item(<<"learning">>, FALSE, FALSE),
     Item(<<"machine", "learning">>, FALSE, TRUE),
     Item(<<>>, FALSE, FALSE)}

\* A line of the resume: the skills header ("## SKILLS"), another header
\* ("## EXPERIENCE"), a bullet ("- item, item"), other text, the empty line
ResumeLine(k, items) == [kind |-> k, items |-> items]

SkillsHeader == ResumeLine("skills_header", <<>>)

OtherHeader == ResumeLine("other_header", <<>>)

PlainLine == ResumeLine("plain", <<>>)

BlankLine == ResumeLine("blank", <<>>)

Bullet(items) == ResumeLine("bullet", items)

\* bullets of one or two items; text follows the dash on the line, so the
\* first item is not empty
Bullets ==
    {Bullet(<<i>>) : i \in {x \in Items : x.words # <<>>}}
        \cup {Bullet(<<i, j>>) : i \in {x \in Items : x.words # <<>>}, j \in Items}

ResumeLines == {SkillsHeader, OtherHeader, PlainLine, BlankLine} \cup Bullets

RECURSIVE ResumeTexts(_)
ResumeTexts(n) ==
    IF n = 0 THEN {<<>>}
    ELSE ResumeTexts(n - 1) \cup
         {Append(s, l) : s \in {t \in ResumeTexts(n - 1) : Len(t) = n - 1},
                         l \in ResumeLines}

\* a line that starts with ##
IsHeader(l) == l.kind \in {"skills_header", "other_header"}

SearchAnyHeader(text) ==
    LET hits == {i \in 1..(Len(text) - 1) : IsHeader(text[i])}
    IN  IF hits = {} THEN 0 ELSE SetMin(hits)

\* re.search(r"##\s*SKILLS\s*\n..."): the first skills header that a line
\* break follows, 0 when there is none
SearchSkillsHeader(text) ==
    LET hits == {i \in 1..(Len(text) - 1) : text[i].kind = "skills_header"}
    IN  IF hits = {} THEN 0 ELSE SetMin(hits)

\* group(1) of the match at header line h: \s*\n takes the empty lines after
\* the header, then (.*?)(?=\n##|$) runs from the next line to the end of
\* the first line that a header line or the end of the text follows
SkillsContent(text, h) ==
    LET nonblank == {i \in (h + 1)..Len(text) : text[i].kind # "blank"}
    IN  IF nonblank = {} THEN <<>>
        ELSE LET first == SetMin(nonblank)
                 ends == {j \in first..Len(text) :
                            j = Len(text) \/ IsHeader(text[j + 1])}
             IN  SubSeq(text, first, SetMin(ends))

\* skill.strip().lower() and, after the split, s.strip()
StripLower(i) == Item(i.words, FALSE, FALSE)

\* the items of the bullets of the content, in order: re.findall of
\* "-\s*(.*)", then the split at commas
RECURSIVE BulletItems(_)
BulletItems(content) ==
    IF content = <<>> THEN <<>>
    ELSE (IF Head(content).kind = "bullet"
          THEN [k \in 1..Len(Head(content).items) |-> StripLower(Head(content).items[k])]
          ELSE <<>>)
         \o BulletItems(Tail(content))

\* list(filter(None, final_skills))
RECURSIVE FilterNone(_)
FilterNone(s) ==
    IF s = <<>> THEN <<>>
    ELSE (IF Head(s).words = <<>> THEN <<>> ELSE <<Head(s)>>) \o FilterNone(Tail(s))

ExtractSkillsFromResume(text) ==
    LET h == SearchSkillsHeader(text)
    IN  IF h = 0 THEN <<>>
        ELSE FilterNone(BulletItems(SkillsContent(text, h)))

-----------------------------------------------------------------------------
(* score_jobs (src/processing.py) *)

MaxJobs == 2
MaxSkillList == 2

\* str.lower() of a word of a job description
Lower(w) ==
    CASE w = "Python" -> "python"
      [] w = "Machine" -> "machine"
      [] OTHER -> w

LowerAll(d) == [i \in 1..Len(d) |-> Lower(d[i])]

\* a cell of the description column: a string, as its words, or NaN for a
\* value that is missing or is not a string
Cell(t, v) == [t |-> t, v |-> v]

NaN == Cell("nan", <<>>)

Descriptions ==
    {Cell("str", <<>>), Cell("str", <<"Python">>),
     Cell("str", <<"machine", "learning">>),
     Cell("str", <<"learning", "machine">>),
     Cell("str", <<"python", "python">>),
     Cell("str", <<"Machine", "learning", "python">>),
     NaN}

\* a row of the frame; id is the row's position in the input
Job(i, d, s) == [id |-> i, description |-> d, score |-> s]

\* the frames of n rows that have a description column
RECURSIVE RowsOf(_)
RowsOf(n) ==
    IF n = 0 THEN {<<>>}
    ELSE {Append(r, Job(n, d, 0)) : r \in RowsOf(n - 1), d \in Descriptions}

Frame(hd, hs, rows) == [has_description |-> hd, has_score |-> hs, rows |-> rows]

\* the frames of the caller: with a description column, or without one,
\* when no job has a description
Frames ==
    UNION {{Frame(TRUE, FALSE, r) : r \in RowsOf(n)} : n \in 0..MaxJobs}
        \cup {Frame(FALSE, FALSE, [i \in 1..n |-> Job(i, NaN, 0)]) : n \in 0..MaxJobs}

\* the skills a resume may list
SkillItems ==
    {Item(<<"python">>, FALSE, FALSE), Item(<<"learning">>, FALSE, FALSE),
     Item(<<"machine">>, TRUE, FALSE),
     Item(<<"machine", "learning">>, FALSE, TRUE),
     Item(<<"aws">>, FALSE, FALSE)}

RECURSIVE SkillLists(_)
SkillLists(n) ==
    IF n = 0 THEN {<<>>}
    ELSE SkillLists(n - 1) \cup
         {Append(s, i) : s \in {t \in SkillLists(n - 1) : Len(t) = n - 1},
                         i \in SkillItems}

\* the resume that lists the skills one bullet each under the skills header
ResumeOf(list) ==
    <<PlainLine, SkillsHeader>> \o [k \in 1..Len(list) |-> Bullet(<<list[k]>>)]
        \o <<OtherHeader, PlainLine>>

\* resumes without a skills section, and one whose last line is the header
OtherResumes ==
    {<<>>, <<PlainLine>>, <<OtherHeader, Bullet(<<Item(<<"python">>, FALSE, FALSE)>>)>>,
     <<PlainLine, SkillsHeader>>}

\* the skill, as its words, matches the description at word p
MatchesAt(skill, d, p) ==
    /\ p + Len(skill) - 1 <= Len(d)
    /\ SubSeq(d, p, p + Len(skill) - 1) = skill

\* re.findall(skills_pattern, text): the scan goes from left to right; at a
\* word it takes the first alternative of the pattern that matches there
\* and goes on after the match
RECURSIVE FindAll(_, _, _)
FindAll(pattern, d, p) ==
    IF p > Len(d) THEN {}
    ELSE LET alts == {k \in 1..Len(pattern) : MatchesAt(pattern[k], d, p)}
         IN  IF alts = {} THEN FindAll(pattern, d, p + 1)
             ELSE LET m == pattern[SetMin(alts)]
                  IN  {m} \cup FindAll(pattern, d, p + Len(m))

\* skills_pattern: the alternatives, in the order of the skills
SkillsPattern(sk) == [k \in 1..Len(sk) |-> sk[k].words]

\* calculate_score(description)
CalculateScore(cell, pattern) ==
    IF cell.t # "str" THEN 0
    ELSE Cardinality(FindAll(pattern, LowerAll(cell.v), 1))

\* row i of rows comes before row j in the sorted frame: the higher score
\* first; rows of equal score as the sort of the build leaves them, in the
\* order they had or in the opposite one
Before(rows, i, j, ties) ==
    \/ rows[i].score > rows[j].score
    \/ rows[i].score = rows[j].score /\ (IF ties = "input" THEN i < j ELSE i > j)

\* sort_values(by='score', ascending=False)
RECURSIVE SortValues(_, _)
SortValues(rows, ties) ==
    IF rows = <<>> THEN <<>>
    ELSE LET i == CHOOSE i \in 1..Len(rows) :
                     \A j \in 1..Len(rows) : j = i \/ Before(rows, i, j, ties)
         IN  <<rows[i]>> \o
             SortValues(SubSeq(rows, 1, i - 1) \o SubSeq(rows, i + 1, Len(rows)), ties)

ScoreReturned(f) == [type |-> "returned", exc |-> "none", frame |-> f]

ScoreRaised(e, f) == [type |-> "raised", exc |-> e, frame |-> f]

\* df['score'] = 0
ZeroScores(f) ==
    Frame(f.has_description, TRUE, [i \in 1..Len(f.rows) |-> [f.rows[i] EXCEPT !.score = 0]])

\* scored_df['score'] = scored_df['description'].apply(calculate_score)
ApplyScores(f, pattern) ==
    Frame(f.has_description, TRUE,
          [i \in 1..Len(f.rows) |->
              [f.rows[i] EXCEPT !.score = CalculateScore(f.rows[i].description, pattern)]])

\* score_jobs(df, resume_text)
ScoreJobsResult(f, text, ties) ==
    LET sk == ExtractSkillsFromResume(text)
    IN  IF f.rows = <<>> THEN ScoreReturned(f)
        ELSE IF sk = <<>> THEN ScoreReturned(ZeroScores(f))
        ELSE IF ~f.has_description THEN ScoreRaised("KeyError", f)
        ELSE LET scored == ApplyScores(f, SkillsPattern(sk))
             IN  ScoreReturned(Frame(TRUE, TRUE, SortValues(scored.rows, ties)))

CallerFrameSorted(f, text, res) == res.frame

\* the frame the caller holds after the call: df itself gets the score
\* column when no skill is found, and is left alone otherwise (df.copy())
CallerFrame(f, text, res) ==
    IF f.rows # <<>> /\ ExtractSkillsFromResume(text) = <<>> THEN res.frame ELSE f

\* the caller extracts the skills of a resume
ExtractSkills ==
    /\ spc = "extracting"
    /\ resume_skills' = ExtractSkillsFromResume(resume_text)
    /\ spc' = "extracted"
    /\ UNCHANGED <<resume_text, df, tie_order, runs>>
    /\ UNCHANGED <<clientVars, workerVars, tailorVars, sectionVars, restVars>>

\* the caller scores its frame against the resume, twice at most
ScoreJobs ==
    /\ spc = "scoring"
    /\ Len(runs) < 2
    /\ LET res == ScoreJobsResult(df, resume_text, tie_order)
       IN  /\ runs' = Append(runs, res)
           /\ df' = CallerFrame(df, resume_text, res)
    /\ resume_skills' = ExtractSkillsFromResume(resume_text)
    /\ UNCHANGED <<spc, resume_text, tie_order>>
    /\ UNCHANGED <<clientVars, workerVars, tailorVars, sectionVars, restVars>>

ExtractInit ==
    /\ spc = "extracting"
    /\ resume_text \in ResumeTexts(MaxResumeLines)
    /\ resume_skills = <<>>
    /\ df = Frame(TRUE, FALSE, <<>>)
    /\ tie_order = "input"
    /\ runs = <<>>

ScoreInit ==
    /\ spc = "scoring"
    /\ resume_text \in {ResumeOf(l) : l \in SkillLists(MaxSkillList)} \cup OtherResumes
    /\ resume_skills = <<>>
    /\ df \in Frames
    /\ tie_order \in {"input", "reversed"}
    /\ runs = <<>>

\* neither function is called
ScoreOff ==
    /\ spc = "off"
    /\ resume_text = <<>>
    /\ resume_skills = <<>>
    /\ df = Frame(TRUE, FALSE, <<>>)
    /\ tie_order = "input"
    /\ runs = <<>>

-----------------------------------------------------------------------------
(* OpenAIClient.__init__ and the parameters of a request *)

\* Settings: openai_model, openai_max_tokens, openai_temperature (the
\* temperature in tenths)
openai_model == "gpt-4"
openai_max_tokens == 2000
openai_temperature == 7

\* an optional argument: None, or a value
None(v) == [none |-> TRUE, v |-> v]

Some(v) == [none |-> FALSE, v |-> v]

\* the values a caller passes: a model name, a number of tokens >= 1, a
\* temperature between 0.0 and 2.0 (in tenths)
ModelArgs == {None(""), Some("gpt-3.5-turbo"), Some("gpt-4o")}

MaxTokensArgs == {None(0), Some(1), Some(1000)}

TemperatureArgs == {None(0), Some(0), Some(5)}

Args ==
    [model : ModelArgs, max_tokens : MaxTokensArgs, temperature : TemperatureArgs]

NoArgs == [model |-> None(""), max_tokens |-> None(0), temperature |-> None(0)]

Defaults ==
    [model |-> openai_model, max_tokens |-> openai_max_tokens,
     temperature |-> openai_temperature]

\* x or d, of an optional string: None and "" are false
OrStr(x, d) == IF ~x.none /\ x.v # "" THEN x.v ELSE d

\* x or d, of an optional number: None, 0 and 0.0 are false
OrNum(x, d) == IF ~x.none /\ x.v # 0 THEN x.v ELSE d

\* model or settings.openai_model, and so on, for each of the three
Resolve(given, defaults) ==
    [model |-> OrStr(given.model, defaults.model),
     max_tokens |-> OrNum(given.max_tokens, defaults.max_tokens),
     temperature |-> OrNum(given.temperature, defaults.temperature)]

\* OpenAIClient(model=..., max_tokens=..., temperature=...)
Construct ==
    /\ opc = "new"
    /\ self_cfg' = Resolve(init_args, Defaults)
    /\ opc' = "constructed"
    /\ UNCHANGED <<init_args, call_args, kwargs>>
    /\ UNCHANGED <<clientVars, workerVars, tailorVars, sectionVars, scoreVars,
                   shutdownVars, coVars>>

\* chat_completion(..., model, max_tokens, temperature) hands its arguments
\* to _make_request_with_retry, which resolves them against self and builds
\* the kwargs of the transport call
SendRequest ==
    /\ opc = "constructed"
    /\ \E given \in Args :
         /\ call_args' = given
         /\ kwargs' = Resolve(given, self_cfg)
    /\ opc' = "sent"
    /\ UNCHANGED <<init_args, self_cfg>>
    /\ UNCHANGED <<clientVars, workerVars, tailorVars, sectionVars, scoreVars,
                   shutdownVars, coVars>>

OverrideInit ==
    /\ opc = "new"
    /\ init_args \in Args
    /\ self_cfg = Defaults
    /\ call_args = NoArgs
    /\ kwargs = Defaults

-----------------------------------------------------------------------------
(* MonitoringService in its thread and the lifespan's shutdown *)

MaxReady == 2

\* the consumer thread is inside an operation on the channel or the
\* connection: queue_declare, basic_qos / basic_consume, the I/O loop of
\* start_consuming, basic_ack / basic_nack
ConsumerOps == {"declare", "qos", "wait", "settle"}

\* the lifespan is inside channel.stop_consuming() or connection.close()
LifespanOps == {"stop_consuming", "close"}

\* threading.Thread(target=monitoring_service.start_consuming).start()
ThreadStarts ==
    /\ consumer_pc = "created"
    /\ consumer_pc' = "connect"
    /\ UNCHANGED <<lifespan_pc, mon_connection, mon_channel, should_stop,
                   mon_retry, ready>>
    /\ UNCHANGED <<clientVars, workerVars, tailorVars, sectionVars, scoreVars,
                   overrideVars, coVars>>

\* connect_rabbitmq: BlockingConnection and connection.channel() succeed;
\* queue_declare is entered
ConnectRabbitmq ==
    /\ consumer_pc = "connect"
    /\ mon_retry < connect_max_retries
    /\ mon_connection' = "open"
    /\ mon_channel' = "open"
    /\ consumer_pc' = "declare"
    /\ UNCHANGED <<lifespan_pc, should_stop, mon_retry, ready>>
    /\ UNCHANGED <<clientVars, workerVars, tailorVars, sectionVars, scoreVars,
                   overrideVars, coVars>>

\* connect_rabbitmq: the attempt raises, retry_count += 1, time.sleep(5)
ConnectRabbitmqFails ==
    /\ consumer_pc = "connect"
    /\ mon_retry < connect_max_retries
    /\ mon_retry' = mon_retry + 1
    /\ UNCHANGED <<consumer_pc, lifespan_pc, mon_connection, mon_channel,
                   should_stop, ready>>
    /\ UNCHANGED <<clientVars, workerVars, tailorVars, sectionVars, scoreVars,
                   overrideVars, coVars>>

\* connect_rabbitmq returns False and start_consuming returns
ConnectRabbitmqGivesUp ==
    /\ consumer_pc = "connect"
    /\ ~(mon_retry < connect_max_retries)
    /\ consumer_pc' = "ended"
    /\ UNCHANGED <<lifespan_pc, mon_connection, mon_channel, should_stop,
                   mon_retry, ready>>
    /\ UNCHANGED <<clientVars, workerVars, tailorVars, sectionVars, scoreVars,
                   overrideVars, coVars>>

\* queue_declare returns, basic_qos and basic_consume are called; they
\* return and channel.start_consuming() waits for deliveries
ConsumerSetsUp ==
    /\ consumer_pc \in {"declare", "qos"}
    /\ consumer_pc' = IF consumer_pc = "declare" THEN "qos" ELSE "wait"
    /\ UNCHANGED <<lifespan_pc, mon_connection, mon_channel, should_stop,
                   mon_retry, ready>>
    /\ UNCHANGED <<clientVars, workerVars, tailorVars, sectionVars, scoreVars,
                   overrideVars, coVars>>

\* start_consuming dispatches a delivery to process_status_log, which
\* decodes the body and uses the database session
Dispatch ==
    /\ consumer_pc = "wait"
    /\ mon_channel = "open"
    /\ mon_connection = "open"
    /\ ready > 0
    /\ ready' = ready - 1
    /\ consumer_pc' = "callback"
    /\ UNCHANGED <<lifespan_pc, mon_connection, mon_channel, should_stop, mon_retry>>
    /\ UNCHANGED <<clientVars, workerVars, tailorVars, sectionVars, scoreVars,
                   overrideVars, coVars>>

\* process_status_log calls ch.basic_ack or ch.basic_nack, and the call
\* returns to the I/O loop
Settle ==
    /\ consumer_pc \in {"callback", "settle"}
    /\ consumer_pc' = IF consumer_pc = "callback" THEN "settle" ELSE "wait"
    /\ UNCHANGED <<lifespan_pc, mon_connection, mon_channel, should_stop,
                   mon_retry, ready>>
    /\ UNCHANGED <<clientVars, workerVars, tailorVars, sectionVars, scoreVars,
                   overrideVars, coVars>>

\* the consumer finds its channel stopped or its connection closed: the
\* operation it is in returns or raises and start_consuming ends
ConsumerEnds ==
    /\ consumer_pc \in ConsumerOps
    /\ mon_channel = "stopped" \/ mon_connection = "closed"
    /\ consumer_pc' = "ended"
    /\ UNCHANGED <<lifespan_pc, mon_connection, mon_channel, should_stop,
                   mon_retry, ready>>
    /\ UNCHANGED <<clientVars, workerVars, tailorVars, sectionVars, scoreVars,
                   overrideVars, coVars>>

\* the application shuts down: the lifespan resumes after its yield and
\* calls monitoring_service.stop_consuming(), which sets should_stop and
\* tests self.channel and self.connection
Shutdown ==
    /\ lifespan_pc = "serving"
    /\ consumer_pc # "created"
    /\ should_stop' = TRUE
    /\ lifespan_pc' = IF mon_channel # "None" THEN "stop_consuming"
                      ELSE IF mon_connection = "open" THEN "close" ELSE "done"
    /\ UNCHANGED <<consumer_pc, mon_connection, mon_channel, mon_retry, ready>>
    /\ UNCHANGED <<clientVars, workerVars, tailorVars, sectionVars, scoreVars,
                   overrideVars, coVars>>

\* self.channel.stop_consuming() returns
StopConsumingReturns ==
    /\ lifespan_pc = "stop_consuming"
    /\ mon_channel' = "stopped"
    /\ lifespan_pc' = IF mon_connection = "open" THEN "close" ELSE "done"
    /\ UNCHANGED <<consumer_pc, mon_connection, should_stop, mon_retry, ready>>
    /\ UNCHANGED <<clientVars, workerVars, tailorVars, sectionVars, scoreVars,
                   overrideVars, coVars>>

\* self.connection.close() returns
CloseReturns ==
    /\ lifespan_pc = "close"
    /\ mon_connection' = "closed"
    /\ lifespan_pc' = "done"
    /\ UNCHANGED <<consumer_pc, mon_channel, should_stop, mon_retry, ready>>
    /\ UNCHANGED <<clientVars, workerVars, tailorVars, sectionVars, scoreVars,
                   overrideVars, coVars>>

\* the lifespan has created the MonitoringService and its thread
ShutdownInit ==
    /\ consumer_pc = "created"
    /\ lifespan_pc = "serving"
    /\ mon_connection = "None"
    /\ mon_channel = "None"
    /\ should_stop = FALSE
    /\ mon_retry = 0
    /\ ready \in 0..MaxReady

\* the monitoring service is not running
ShutdownOff ==
    /\ consumer_pc = "off"
    /\ lifespan_pc = "off"
    /\ mon_connection = "None"
    /\ mon_channel = "None"
    /\ should_stop = FALSE
    /\ mon_retry = 0
    /\ ready = 0

-----------------------------------------------------------------------------
(* Several requests to _make_request_with_retry on one OpenAIClient *)

MaxCoRetries == 2

\* the coroutines that run concurrently on the event loop
Requests == {1, 2}

\* what the provider does to a request's calls
CoOutcomes == {"ok", "rate_limit", "api_error"}

RECURSIVE CoScripts(_)
CoScripts(n) ==
    IF n = 0 THEN {<<>>}
    ELSE {Append(sc, o) : sc \in CoScripts(n - 1), o \in CoOutcomes}

\* an attempt counter kept on the client, that of the first request
AttemptShared(rq) == co_attempt[1]

\* attempt is a local of the coroutine: each request reads its own
AttemptOf(rq) == co_attempt[rq]

\* a request enters _make_request_with_retry
CoBegin(rq) ==
    /\ co_pc[rq] = "pending"
    /\ IF InRange(0, co_max_retries)
       THEN /\ co_pc' = [co_pc EXCEPT ![rq] = "attempting"]
            /\ co_outcome' = co_outcome
       ELSE /\ co_pc' = [co_pc EXCEPT ![rq] = "failed"]
            /\ co_outcome' = [co_outcome EXCEPT ![rq] =
                                 ExhaustedError(co_max_retries, co_last[rq])]
    /\ UNCHANGED <<co_max_retries, co_provider, co_attempt, co_calls, co_last>>
    /\ UNCHANGED <<clientVars, workerVars, tailorVars, sectionVars, scoreVars,
                   overrideVars, shutdownVars>>

\* the awaited transport call of a request returns a response
CoTransportReturns(rq) ==
    /\ co_pc[rq] = "attempting"
    /\ OutcomeOf(co_provider[rq], co_calls[rq] + 1) \in Responses
    /\ co_calls' = [co_calls EXCEPT ![rq] = @ + 1]
    /\ co_pc' = [co_pc EXCEPT ![rq] = "success"]
    /\ co_outcome' = [co_outcome EXCEPT ![rq] =
                         Returned(ResponseOf(co_provider[rq], co_calls[rq] + 1))]
    /\ UNCHANGED <<co_max_retries, co_provider, co_attempt, co_last>>
    /\ UNCHANGED <<clientVars, workerVars, tailorVars, sectionVars, scoreVars,
                   overrideVars, shutdownVars>>

\* the awaited transport call of a request raises: the clause that catches
\* it awaits asyncio.sleep, or raises
CoTransportRaises(rq) ==
    /\ co_pc[rq] = "attempting"
    /\ OutcomeOf(co_provider[rq], co_calls[rq] + 1) \notin Responses
    /\ co_calls' = [co_calls EXCEPT ![rq] = @ + 1]
    /\ LET e == [kind |-> OutcomeOf(co_provider[rq], co_calls[rq] + 1),
                 call |-> co_calls[rq] + 1]
           clause == ExceptClause(e.kind)
       IN  IF clause \in RetryingClauses
           THEN /\ co_last' = [co_last EXCEPT ![rq] = e]
                /\ co_pc' = [co_pc EXCEPT ![rq] = "retrying"]
                /\ co_outcome' = co_outcome
           ELSE /\ co_pc' = [co_pc EXCEPT ![rq] = "failed"]
                /\ co_outcome' = [co_outcome EXCEPT ![rq] =
                                     IF clause = "OpenAIError" THEN ApiError(e)
                                                               ELSE Propagated(e)]
                /\ co_last' = co_last
    /\ UNCHANGED <<co_max_retries, co_provider, co_attempt>>
    /\ UNCHANGED <<clientVars, workerVars, tailorVars, sectionVars, scoreVars,
                   overrideVars, shutdownVars>>

\* the sleep of a request ends: its loop takes the next index or is used up
CoBackoffElapsed(rq) ==
    /\ co_pc[rq] = "retrying"
    /\ co_attempt' = [co_attempt EXCEPT ![rq] = AttemptOf(rq) + 1]
    /\ IF InRange(AttemptOf(rq) + 1, co_max_retries)
       THEN /\ co_pc' = [co_pc EXCEPT ![rq] = "attempting"]
            /\ co_outcome' = co_outcome
       ELSE /\ co_pc' = [co_pc EXCEPT ![rq] = "failed"]
            /\ co_outcome' = [co_outcome EXCEPT ![rq] =
                                 ExhaustedError(co_max_retries, co_last[rq])]
    /\ UNCHANGED <<co_max_retries, co_provider, co_calls, co_last>>
    /\ UNCHANGED <<clientVars, workerVars, tailorVars, sectionVars, scoreVars,
                   overrideVars, shutdownVars>>

CoInit ==
    /\ co_max_retries \in 0..MaxCoRetries
    /\ co_provider \in [Requests -> CoScripts(Max2(co_max_retries, 1))]
    /\ co_pc = [rq \in Requests |-> "pending"]
    /\ co_attempt = [rq \in Requests |-> 0]
    /\ co_calls = [rq \in Requests |-> 0]
    /\ co_last = [rq \in Requests |-> NoException]
    /\ co_outcome = [rq \in Requests |-> NoOutcome]

\* no concurrent requests are made
CoOff ==
    /\ co_max_retries = 3
    /\ co_provider = [rq \in Requests |-> <<"ok">>]
    /\ co_pc = [rq \in Requests |-> "off"]
    /\ co_attempt = [rq \in Requests |-> 0]
    /\ co_calls = [rq \in Requests |-> 0]
    /\ co_last = [rq \in Requests |-> NoException]
    /\ co_outcome = [rq \in Requests |-> NoOutcome]

\* no client is under construction
OverrideOff ==
    /\ opc = "off"
    /\ init_args = NoArgs
    /\ self_cfg = Defaults
    /\ call_args = NoArgs
    /\ kwargs = Defaults

RestOff ==
    /\ OverrideOff
    /\ ShutdownOff
    /\ CoOff

PureOff ==
    /\ SectionsOff
    /\ ScoreOff
    /\ RestOff

ClientNext ==
    \/ BeginRequest
    \/ TransportReturns
    \/ TransportRaises
    \/ BackoffElapsed

WorkerNext ==
    \/ Deliver
    \/ EnterCallback
    \/ BrokerRequeue
    \/ WorkerKilled
    \/ TwConnectOk
    \/ TwConnectFails
    \/ TwLoads
    \/ TwValidate
    \/ TwPublishOk
    \/ TwPublishFails
    \/ TwAckOk
    \/ TwAckFails
    \/ MonConnectOk
    \/ MonConnectFails
    \/ MonGiveUp
    \/ MonLoads
    \/ MonDbOk
    \/ MonDbFails
    \/ MonAckOk
    \/ MonAckFails
    \/ MonNackOk
    \/ MonNackFails

InitClient ==
    /\ PureOff
    /\ ClientInit
    /\ WorkerOff
    /\ TailorOff

InitClientLive ==
    /\ PureOff
    /\ ClientInitUpTo(MaxRetriesLive)
    /\ WorkerOff
    /\ TailorOff

InitOverride ==
    /\ SectionsOff
    /\ ScoreOff
    /\ OverrideInit
    /\ ShutdownOff
    /\ CoOff
    /\ ClientOff
    /\ WorkerOff
    /\ TailorOff

InitShutdown ==
    /\ SectionsOff
    /\ ScoreOff
    /\ OverrideOff
    /\ ShutdownInit
    /\ CoOff
    /\ ClientOff
    /\ WorkerOff
    /\ TailorOff

InitCo ==
    /\ SectionsOff
    /\ ScoreOff
    /\ OverrideOff
    /\ ShutdownOff
    /\ CoInit
    /\ ClientOff
    /\ WorkerOff
    /\ TailorOff

InitWorker ==
    /\ PureOff
    /\ ClientOff
    /\ WorkerInit
    /\ TailorOff

\* a text handed to parse_json_response
InitParse ==
    /\ PureOff
    /\ ClientOff
    /\ WorkerOff
    /\ tpc = "parsing"
    /\ resume = SampleResume
    /\ reply_json \in SampleReplies
    /\ response_text \in
          Texts(MaxTextLen)
              \cup {JsonFenced(J) : J \in {t \in Texts(MaxTextLen) : IsJsonObjectText(t)}}
              \cup {PlainFenced(J) : J \in {t \in Texts(MaxTextLen) : IsJsonObjectText(t)}}
              \cup TwoBlocks
    /\ parsed = NotParsed
    /\ tailor_outcome = NoTailorOutcome
    /\ http_status = 0

\* a parsed reply and a resume handed to the rest of tailor_resume
InitBuild ==
    /\ PureOff
    /\ ClientOff
    /\ WorkerOff
    /\ tpc = "parsed"
    /\ resume \in Resumes
    /\ reply_json = JsonObject("absent", NoFields)
    /\ response_text = <<>>
    /\ parsed \in {ParseReturned(v) : v \in JsonValues}
    /\ tailor_outcome = NoTailorOutcome
    /\ http_status = 0

\* one request to the /tailor route, whose tailor_resume has called
\* chat_completion
InitTailor ==
    /\ PureOff
    /\ max_retries \in 0..MaxTailorRetries
    /\ retry_delay = 1
    /\ provider \in Scripts(max_retries + 1)
    /\ cpc = "pending"
    /\ attempt = 0
    /\ calls = 0
    /\ last_exception = NoException
    /\ sleeps = <<>>
    /\ outcome = NoOutcome
    /\ WorkerOff
    /\ tpc = "awaiting"
    /\ resume = SampleResume
    /\ reply_json = JsonObject("absent", NoFields)
    /\ response_text = <<>>
    /\ parsed = NotParsed
    /\ tailor_outcome = NoTailorOutcome
    /\ http_status = 0

ParseNext == ParseReply

BuildNext == BuildResult

TailorNext ==
    \/ BeginRequest
    \/ TransportReturns
    \/ TransportRaises
    \/ BackoffElapsed
    \/ ChatCompletionReturns
    \/ ChatCompletionRaises
    \/ ParseReply
    \/ BuildResult
    \/ RouterResponds

\* parse_json_response applied to a text
SpecParse == InitParse /\ [][ParseNext]_vars

\* the rest of tailor_resume applied to a parsed reply
SpecBuild == InitBuild /\ [][BuildNext]_vars

\* one request to the /tailor route
SpecTailor == InitTailor /\ [][TailorNext]_vars

\* a reply handed to _parse_tailored_response
InitSections ==
    /\ ClientOff
    /\ WorkerOff
    /\ TailorOff
    /\ SectionsInit
    /\ ScoreOff
    /\ RestOff

\* a resume handed to extract_skills_from_resume
InitExtract ==
    /\ ClientOff
    /\ WorkerOff
    /\ TailorOff
    /\ SectionsOff
    /\ ExtractInit
    /\ RestOff

\* a frame and a resume handed to score_jobs
InitScore ==
    /\ ClientOff
    /\ WorkerOff
    /\ TailorOff
    /\ SectionsOff
    /\ ScoreInit
    /\ RestOff

SectionsNext ==
    \/ ScanLine
    \/ ReturnSections

ExtractNext == ExtractSkills

ScoreNext == ScoreJobs

\* _parse_tailored_response applied to a reply
SpecSections == InitSections /\ [][SectionsNext]_vars

\* extract_skills_from_resume applied to a resume
SpecExtract == InitExtract /\ [][ExtractNext]_vars

\* score_jobs applied twice to a frame and a resume
SpecScore == InitScore /\ [][ScoreNext]_vars

\* one request to the model client
SpecClient == InitClient /\ [][ClientNext]_vars

ShutdownNext ==
    \/ ThreadStarts
    \/ ConnectRabbitmq
    \/ ConnectRabbitmqFails
    \/ ConnectRabbitmqGivesUp
    \/ ConsumerSetsUp
    \/ Dispatch
    \/ Settle
    \/ ConsumerEnds
    \/ Shutdown
    \/ StopConsumingReturns
    \/ CloseReturns

\* the monitoring service's consumer thread and the lifespan's shutdown
SpecShutdown == InitShutdown /\ [][ShutdownNext]_vars

CoNext ==
    \/ \E rq \in Requests : CoBegin(rq)
    \/ \E rq \in Requests : CoTransportReturns(rq)
    \/ \E rq \in Requests : CoTransportRaises(rq)
    \/ \E rq \in Requests : CoBackoffElapsed(rq)

\* two requests interleaved on one client
SpecCo == InitCo /\ [][CoNext]_vars

OverrideNext ==
    \/ Construct
    \/ SendRequest

\* a client constructed and one request sent with it
SpecOverride == InitOverride /\ [][OverrideNext]_vars

\* the same request on an event loop that keeps running the coroutine: an
\* awaited transport call returns or raises, an awaited sleep ends
SpecClientLive == InitClientLive /\ [][ClientNext]_vars /\ WF_vars(ClientNext)

\* one queue worker process and its broker
SpecWorker == InitWorker /\ [][WorkerNext]_vars

-----------------------------------------------------------------------------
(* Properties of the model client *)

Transient == {"rate_limit", "connection", "timeout"}

Terminal == cpc \in {"success", "failed"}

\* the provider fails with transient errors k times and then succeeds
FailsThenSucceeds(k) ==
    /\ k + 1 <= Len(provider)
    /\ \A i \in 1..k : provider[i] \in Transient
    /\ provider[k + 1] \in Responses

\* the provider always fails with a transient error
AlwaysTransient == \A i \in 1..Len(provider) : provider[i] \in Transient

RaisedExhausted ==
    /\ outcome.type = "raised"
    /\ outcome.exc = "OpenAIClientError"
    /\ outcome.msg = "Failed after retries"

\* C1: with max_retries = N >= 1 and a provider that fails transiently k < N
\* times and then succeeds, the request never makes more than k+1 transport
\* calls, and when it has ended it has returned the (content, tokens) of the
\* (k+1)-th response after exactly k+1 transport calls.
C1_RetryThenSuccess ==
    \A k \in 0..MaxRetriesCfg + 1 :
        (max_retries >= 1 /\ k < max_retries /\ FailsThenSucceeds(k)) =>
            /\ calls <= k + 1
            /\ Terminal =>
                /\ cpc = "success"
                /\ calls = k + 1
                /\ outcome.type = "returned"
                /\ outcome.content = k + 1
                /\ outcome.tokens_used =
                       IF provider[k + 1] = "ok" THEN 10 * (k + 1) ELSE 0

\* N = 3, k = 2: success on the third attempt
C1_Witness ==
    /\ max_retries = 3
    /\ FailsThenSucceeds(2)
    /\ cpc = "success"
    /\ calls = 3

\* C2: with a provider that always fails transiently, the request never makes
\* more than max_retries transport calls, and when it has ended it has raised
\* the exhausted-retries error after exactly max_retries transport calls.
C2_ExhaustedAfterExactlyN ==
    AlwaysTransient =>
        /\ calls <= max_retries
        /\ cpc # "success"
        /\ Terminal => (RaisedExhausted /\ calls = max_retries)

C2_Witness ==
    /\ max_retries = 3
    /\ AlwaysTransient
    /\ cpc = "failed"
    /\ RaisedExhausted
    /\ calls = 3

\* C3: every transport call but the latest one failed with a rate-limit,
\* connection or timeout error (nothing else leads to another attempt), a
\* transient failure with attempts left does lead to another attempt, and
\* once a call has failed with any other error the request has failed with a
\* raised error (so that call is the last one).
C3_ClassificationExact ==
    /\ \A i \in 1..(calls - 1) : provider[i] \in Transient
    /\ cpc = "retrying" => ProviderOutcome(calls) \in Transient
    /\ (calls >= 1 /\ ProviderOutcome(calls) \in Transient /\ calls < max_retries)
           => cpc \in {"retrying", "attempting"}
    /\ (calls >= 1 /\ ProviderOutcome(calls) \notin Transient \cup Responses)
           => (cpc = "failed" /\ outcome.type = "raised"
               /\ outcome.cause.call = calls /\ ~RaisedExhausted)

\* a non-transient provider error on the second attempt: no third call
C3_Witness ==
    /\ max_retries >= 3
    /\ calls = 2
    /\ provider[1] = "timeout"
    /\ provider[2] = "api_error"
    /\ cpc = "failed"

\* C8: every backoff wait (Retrying) is followed by another transport attempt,
\* so Failed is never entered from a wait: no backoff wait is performed after
\* the last permitted attempt.
C8_NoWaitAfterLastAttempt ==
    [][cpc = "retrying" => cpc' = "attempting"]_vars

\* C9: the wait after the failure of the attempt with index i is
\* retry_delay * 2^i whichever transient kind occurred: the first wait is
\* retry_delay, each later wait doubles the one before, there is one wait per
\* transient failure; with retry_delay = 1 and max_retries = 3 and a provider
\* that keeps failing the waits are 1, 2, 4.
C9_ExponentialBackoff ==
    /\ Len(sleeps) = Cardinality({i \in 1..calls : ProviderOutcome(i) \in Transient})
    /\ Len(sleeps) >= 1 => sleeps[1] = retry_delay
    /\ \A j \in 1..(Len(sleeps) - 1) : sleeps[j + 1] = 2 * sleeps[j]
    /\ (retry_delay = 1 /\ max_retries = 3 /\ AlwaysTransient /\ Terminal)
           => sleeps = <<1, 2, 4>>

\* the three kinds, one after the other
C9_Witness ==
    /\ retry_delay = 1
    /\ max_retries = 3
    /\ provider[1] = "rate_limit"
    /\ provider[2] = "connection"
    /\ provider[3] = "timeout"
    /\ sleeps = <<1, 2, 4>>

\* C10: the exhausted-retries error wraps the failure of the final attempt,
\* never an absent cause, and states the number of attempts made, which is
\* max_retries.
C10_ExhaustedWrapsLastFailure ==
    RaisedExhausted =>
        /\ outcome.cause # NoException
        /\ outcome.cause.call = calls
        /\ outcome.attempts = calls
        /\ calls = max_retries

-----------------------------------------------------------------------------
(* Properties of the queue workers *)

Deliveries == 1..Len(log)

\* the callback of delivery d has ended by returning or by raising
Handled(d) == log[d].exit \in {"returned", "raised"}

Issued(d, call) == \E i \in 1..Len(log[d].settle) : log[d].settle[i] = call

\* C4: in the tailoring worker an input message is acknowledged only after
\* its result has been published to the output queue.
C4_AckOnlyAfterPublish ==
    \A d \in Deliveries :
        (worker = "tailoring" /\ Issued(d, "ack") /\ log[d].exit = "returned")
            => log[d].published

\* C5: a delivery whose body is not valid JSON is settled by one nack without
\* requeue, and nothing is published for it.
C5_InvalidJsonDiscarded ==
    \A d \in Deliveries :
        (JsonLoads(log[d].msg.body) # "value" /\ Handled(d))
            => (log[d].settle = <<"nack_discard">> /\ ~log[d].published)

\* C6: a delivery whose body is valid JSON and whose processing raised is
\* settled by one nack with requeue, is not acknowledged, and nothing is
\* published for it.
C6_ProcessingFailureRequeued ==
    \A d \in Deliveries :
        (JsonLoads(log[d].msg.body) = "value" /\ log[d].error # "none"
         /\ Handled(d))
            => (log[d].settle = <<"nack_requeue">> /\ ~log[d].published)

\* C7: for every delivery the callback issues exactly one of ack,
\* nack-with-requeue, nack-without-requeue.
C7_ExactlyOneSettlement ==
    \A d \in Deliveries : Handled(d) => Len(log[d].settle) = 1

\* the worker still tries to connect
ConnectAttemptEnabled == ENABLED (TwConnectOk \/ MonConnectOk)

\* the number of consecutive failures after which a worker is to give up:
\* connect_rabbitmq's max_retries for the monitoring worker; the tailoring
\* worker's loop has none, so the largest number of failures modelled
ConnectLimit ==
    IF worker = "monitoring" THEN connect_max_retries ELSE MaxConnectFailures

\* C12: after a fixed maximum number of consecutive connection failures a
\* worker stops retrying and reports failure: it makes no further attempt.
C12_BoundedReconnect ==
    retry_count >= ConnectLimit => ~ConnectAttemptEnabled

\* C13: at every moment at most one delivered message is unsettled, and
\* while a callback runs the message it processes is that one: no further
\* message is delivered or processed before the previous one is settled.
C13_OneInFlight ==
    /\ Len(unacked) <= 1
    /\ wpc \in InCallback => unacked = <<log[cur].msg>>

\* a second message is processed after the first was acknowledged
C13_Witness ==
    /\ Len(log) = 2
    /\ wpc \in InCallback
    /\ log[1].settle = <<"ack">>
    /\ log[1].exit = "returned"
    /\ log[2].msg.id = 2

\* C11: a request ends by returning (content, tokens_used) or by raising
\* OpenAIClientError: no other exception type leaves chat_completion, and a
\* failed transport call is never turned into a return.
C11_ResultOrTypedError ==
    Terminal =>
        \/ /\ outcome.type = "returned"
           /\ cpc = "success"
           /\ ProviderOutcome(calls) \in Responses
        \/ /\ outcome.type = "raised"
           /\ outcome.exc = "OpenAIClientError"

-----------------------------------------------------------------------------
(* Claims about tailor_resume and parse_json_response *)

\* tailor_resume has returned or raised
TailorDone == tpc \in {"done", "responded"}

TailorSucceeded == TailorDone /\ tailor_outcome.type = "returned"

\* parse_json_response returned an object whose tailored_resume is an
\* object or is absent; ReplyData is then the code's tailored_data
ReplyHasData ==
    /\ parsed.kind = "returned"
    /\ parsed.value.t = "object"
    /\ parsed.value.tailored_resume.t # "null"

ReplyData == parsed.value.tailored_resume.f

\* C14: for every integer fit_score of the reply the fit_score of the result
\* lies in [0,100]: above 100 it becomes 100, below 0 it becomes 0, inside
\* the range it is unchanged, and an integer fit_score never makes the
\* request fail; every result, whatever the reply, has its fit_score in
\* [0,100].
C14_FitScoreClamped ==
    /\ TailorSucceeded => tailor_outcome.tailored_resume.fit_score \in 0..100
    /\ (TailorDone /\ ReplyHasData /\ ReplyData.fit_score.t = "int") =>
          LET x == ReplyData.fit_score.v
              y == tailor_outcome.tailored_resume.fit_score
          IN  /\ tailor_outcome.type = "raised" => ReplyData.summary.t = "null"
              /\ tailor_outcome.type = "returned" =>
                    /\ x > 100 => y = 100
                    /\ x < 0 => y = 0
                    /\ (0 <= x /\ x <= 100) => y = x

\* a reply with fit_score -10 gave a result with fit_score 0
C14_Witness ==
    /\ TailorSucceeded
    /\ ReplyHasData
    /\ ReplyData.fit_score = Field("int", -10)
    /\ tailor_outcome.tailored_resume.fit_score = 0

\* C15: in every successful result each experience entry's (title, company)
\* pair is that of some experience entry of the input resume.
C15_NoFabricatedExperience ==
    TailorSucceeded =>
        \A i \in 1..Len(tailor_outcome.tailored_resume.experience) :
            \E j \in 1..Len(resume.experience) :
                /\ tailor_outcome.tailored_resume.experience[i].title
                      = resume.experience[j].title
                /\ tailor_outcome.tailored_resume.experience[i].company
                      = resume.experience[j].company

\* C16: when the reply's tailored_resume has no skills_highlighted field the
\* result's skills_highlighted is the first 5 skills of the resume in their
\* order (all of them when there are fewer); when it has no summary field
\* the result's summary is the resume's summary.
C16_DefaultsFromResume ==
    (TailorSucceeded /\ ReplyHasData) =>
        LET t == tailor_outcome.tailored_resume
        IN  /\ ReplyData.skills_highlighted.t = "absent" =>
                  /\ Len(t.skills_highlighted) = Min2(5, Len(resume.skills))
                  /\ \A i \in 1..Len(t.skills_highlighted) :
                        t.skills_highlighted[i] = resume.skills[i]
            /\ ReplyData.summary.t = "absent" => t.summary = resume.summary

\* a resume of 6 skills and a reply without skills_highlighted and summary
\* gave a result with 5 skills
C16_Witness ==
    /\ TailorSucceeded
    /\ ReplyHasData
    /\ ReplyData.skills_highlighted.t = "absent"
    /\ ReplyData.summary.t = "absent"
    /\ Len(resume.skills) = 6
    /\ Len(tailor_outcome.tailored_resume.skills_highlighted) = 5
    /\ resume.summary # ""

\* C17: the summary of every successful result is non-empty, whatever the
\* reply held for the summary field.
C17_SummaryNeverEmpty ==
    TailorSucceeded => tailor_outcome.tailored_resume.summary # ""

\* the reply was received, and it cannot be decoded into the expected shape:
\* it holds no JSON text where parse_json_response looks, or its JSON value
\* is not an object with a tailored_resume object of an integer fit_score
\* and a string summary (where these are present)
ExpectedShape(v) ==
    /\ v.t = "object"
    /\ v.tailored_resume.t # "null"
    /\ v.tailored_resume.f.fit_score.t \in {"absent", "int"}
    /\ v.tailored_resume.f.summary.t \in {"absent", "str"}

UndecodableReply ==
    /\ TailorDone
    /\ cpc = "success"
    /\ LET p == ParseJsonResponse(response_text, reply_json)
       IN  p.kind = "raised" \/ ~ExpectedShape(p.value)

\* C18: failures are categorised by cause: the model API unavailable after
\* retries is answered with 503, a reply that is malformed with 422, any
\* other unexpected error with 500.
C18_ErrorCategories ==
    tpc = "responded" =>
        /\ (cpc = "failed" /\ outcome.exc = "OpenAIClientError") => http_status = 503
        /\ UndecodableReply => http_status = 422
        /\ (cpc = "failed" /\ outcome.exc # "OpenAIClientError") => http_status = 500

\* C19 as stated: when the reply cannot be decoded, tailor_resume fails and
\* the transport was invoked exactly once for the operation.
C19_TransportExactlyOnce ==
    UndecodableReply => (tailor_outcome.type = "raised" /\ calls = 1)

\* C19 amended: when the reply cannot be decoded, tailor_resume fails with an
\* error and no model request follows the reply: once chat_completion is
\* over the client makes no further attempt, and the transport was invoked
\* once for each earlier transient failure and once for the reply.
C19_NoRequestAfterReply ==
    /\ tpc # "awaiting" => cpc \in {"success", "failed"}
    /\ UndecodableReply =>
          /\ tailor_outcome.type = "raised"
          /\ tailor_outcome.exc = "OpenAIClientError"
          /\ calls = Len(sleeps) + 1
          /\ ProviderOutcome(calls) \in Responses

\* an undecodable reply that came after one rate-limit failure
C19_Witness ==
    /\ tpc = "responded"
    /\ UndecodableReply
    /\ calls = 2
    /\ provider[1] = "rate_limit"
    /\ parsed.kind = "raised"
    /\ tailor_outcome.type = "raised"

\* C20: parse_json_response returns the decoded JSON value or raises
\* OpenAIClientError and no other exception, also for a text with a fenced
\* block whose content is not JSON and for a fence that is never closed.
C20_ParseTypedError ==
    tpc = "parsed" =>
        \/ /\ parsed.kind = "returned"
           /\ parsed.value \in {reply_json, JsonArray, JsonObject("absent", NoFields)}
        \/ /\ parsed.kind = "raised"
           /\ parsed.exc = "OpenAIClientError"

\* C21: every error parse_json_response raises carries at most the first
\* 200 characters of the reply, on every failing path and for replies of
\* any length.
C21_ErrorCarriesBoundedPrefix ==
    (tpc = "parsed" /\ parsed.kind = "raised") => parsed.carried <= PrefixLen

\* C22: for every JSON object text J that decodes directly, the reply that
\* wraps J in a json fence and the reply that wraps J in a plain fence are
\* parsed to the value J itself is parsed to.
C22_FencedEqualsBare ==
    tpc = "parsed" =>
        \A J \in {JsonUnfenced(response_text), PlainUnfenced(response_text)} :
            IsJsonObjectText(J) => parsed = ParseJsonResponse(J, reply_json)

-----------------------------------------------------------------------------
(* Claims about _parse_tailored_response *)

SetMax(S) == CHOOSE i \in S : \A j \in S : i >= j

SectionsReturned == ppc = "returned"

HeaderAt(i) == response_lines[i].header # "none"

NoHeader == \A i \in 1..Len(response_lines) : ~HeaderAt(i)

\* the header line most recently seen at line i, 0 when there is none
RecentHeader(i) ==
    LET hs == {j \in 1..i : HeaderAt(j)}
    IN  IF hs = {} THEN 0 ELSE SetMax(hs)

\* what follows header line j up to the next header or the end of the
\* reply, the text after the header's colon first
Under(j) ==
    LET later == {k \in (j + 1)..Len(response_lines) : HeaderAt(k)}
        next == IF later = {} THEN Len(response_lines) + 1 ELSE SetMin(later)
    IN  AfterColon(response_lines[j]) \o SubSeq(response_lines, j + 1, next - 1)

\* the last line that holds the header of section s, 0 when none does
LastOccurrence(s) ==
    LET hs == {j \in 1..Len(response_lines) : response_lines[j].header = s}
    IN  IF hs = {} THEN 0 ELSE SetMax(hs)

\* C23: every line of text that follows a header is in the section of the
\* header most recently seen before it, and a section's final content is
\* what was accumulated under its header up to the next header or the end
\* of the reply, the text after the header's colon first (white space at
\* its ends aside; of a header that occurs again, under its last occurrence).
\* Stated of the replies that hold a header.
C23_LinesUnderRecentHeader ==
    (SectionsReturned /\ ~NoHeader) =>
        /\ \A i \in 1..Len(response_lines) :
              (~HeaderAt(i) /\ ~IsBlank(response_lines[i]) /\ RecentHeader(i) # 0) =>
                  \E k \in 1..Len(sections[response_lines[RecentHeader(i)].header]) :
                      sections[response_lines[RecentHeader(i)].header][k]
                          = response_lines[i]
        /\ \A s \in SectionNames :
              sections[s] = IF LastOccurrence(s) = 0 THEN <<>>
                            ELSE JoinStrip(Under(LastOccurrence(s)))

\* C24: when no line of the reply holds a header marker, tailored_resume is
\* the entire reply, unchanged, and the other three sections are empty.
C24_NoHeaderKeepsReply ==
    (SectionsReturned /\ NoHeader) =>
        /\ sections["tailored_resume"] = Text(response_lines)
        /\ \A s \in SectionNames \ {"tailored_resume"} : sections[s] = <<>>

\* a reply of an empty line and lines of text went whole to tailored_resume
C24_Witness ==
    /\ SectionsReturned
    /\ NoHeader
    /\ Len(response_lines) >= 3
    /\ IsBlank(response_lines[1])
    /\ response_lines[2] = ContentLine("u")
    /\ sections["tailored_resume"] = response_lines

-----------------------------------------------------------------------------
(* Claims about extract_skills_from_resume and score_jobs *)

\* the skill occurs in the description as whole words
Occurs(skill, d) == \E p \in 1..Len(d) : MatchesAt(skill, d, p)

DistinctSkills == {resume_skills[n].words : n \in 1..Len(resume_skills)}

\* C25: the score of a job is the number of distinct skills of the resume
\* that occur in its description as whole words, case-insensitively.
C25_ScoreCountsDistinctSkills ==
    \A k \in 1..Len(runs) :
        (runs[k].type = "returned" /\ resume_skills # <<>>) =>
            \A i \in 1..Len(runs[k].frame.rows) :
                LET row == runs[k].frame.rows[i]
                IN  row.description.t = "str" =>
                        row.score = Cardinality({w \in DistinctSkills :
                                        Occurs(w, LowerAll(row.description.v))})

\* C26: the returned jobs are sorted by score in descending order, and jobs
\* of equal score keep the order they had in the input.
C26_SortedStable ==
    \A k \in 1..Len(runs) :
        runs[k].type = "returned" =>
            \A i \in 1..Len(runs[k].frame.rows), j \in 1..Len(runs[k].frame.rows) :
                i < j =>
                    /\ runs[k].frame.rows[i].score >= runs[k].frame.rows[j].score
                    /\ runs[k].frame.rows[i].score = runs[k].frame.rows[j].score
                          => runs[k].frame.rows[i].id < runs[k].frame.rows[j].id

NoSkillsSection == \A i \in 1..Len(resume_text) : resume_text[i].kind # "skills_header"

\* C27: for a resume without a skills section extract_skills_from_resume
\* returns the empty list, and score_jobs returns without raising, every job
\* with score 0.
C27_NoSkillsAllZero ==
    (NoSkillsSection /\ runs # <<>>) =>
        /\ resume_skills = <<>>
        /\ \A k \in 1..Len(runs) :
              /\ runs[k].type = "returned"
              /\ runs[k].frame.rows # <<>> => runs[k].frame.has_score
              /\ \A i \in 1..Len(runs[k].frame.rows) : runs[k].frame.rows[i].score = 0

\* a resume with bullets under another header only, and two jobs, one of
\* which names a bulleted word: both got score 0
C27_Witness ==
    /\ NoSkillsSection
    /\ \E i \in 1..Len(resume_text) : resume_text[i].kind = "bullet"
    /\ Len(runs) = 1
    /\ runs[1].type = "returned"
    /\ runs[1].frame.has_score
    /\ Len(runs[1].frame.rows) = 2
    /\ runs[1].frame.rows[1].description = Cell("str", <<"Python">>)
    /\ runs[1].frame.rows[1].score = 0

C29_MalformedScoresZero ==
    \A k \in 1..Len(runs) :
        /\ runs[k].type = "returned"
        /\ resume_skills # <<>> =>
              \A i \in 1..Len(runs[k].frame.rows) :
                  LET row == runs[k].frame.rows[i]
                  IN  /\ row.description.t # "str" => row.score = 0
                      /\ row.description.t = "str" =>
                            row.score = CalculateScore(row.description,
                                                       SkillsPattern(resume_skills))

\* C30: the list extract_skills_from_resume returns holds only tokens that
\* are lowercase, trimmed and non-empty, and holds each skill once at most.
C30_SkillsCleanAndDistinct ==
    spc = "extracted" =>
        /\ \A i \in 1..Len(resume_skills) :
              /\ ~resume_skills[i].caps
              /\ ~resume_skills[i].pad
              /\ resume_skills[i].words # <<>>
        /\ \A i \in 1..Len(resume_skills), j \in 1..Len(resume_skills) :
              i # j => resume_skills[i] # resume_skills[j]

\* C31: score_jobs treats its inputs as read-only: no call changes the frame
\* the caller holds, whatever the resume and the frame (no score column
\* added, no row moved).
C31_CallerFrameReadOnly == [][df' = df]_vars

\* C39: when a header is recognised in the reply, tailored_resume holds what
\* was accumulated under the TAILORED_RESUME header (nothing when that
\* header is absent or has nothing under it); the whole reply is stored
\* there only when no header was recognised.
C39_RawReplyOnlyWithoutHeader ==
    (SectionsReturned /\ ~NoHeader) =>
        sections["tailored_resume"] =
            IF LastOccurrence("tailored_resume") = 0 THEN <<>>
            ELSE JoinStrip(Under(LastOccurrence("tailored_resume")))

-----------------------------------------------------------------------------
(* Claims about replies with several fenced blocks *)

\* what stands in the fenced block that comes first in the text, between
\* its opening fence (and the json tag, when it has one) and the next fence
FirstBlock(s) ==
    LET a == FindFence(s, 1)
        start == IF a < Len(s) /\ s[a + 1] = "json" THEN a + 2 ELSE a + 1
    IN  SubSeq(s, start, FindFence(s, start) - 1)

\* C36: when the reply does not decode directly and holds more than one
\* fenced block, parse_json_response decodes the block that comes first in
\* the text, tagged json or not.  Stated of the replies that are two
\* closed blocks one after the other.
C36_FirstBlockDecoded ==
    (tpc = "parsed" /\ ~JsonLoadsOk(response_text) /\ response_text \in TwoBlocks) =>
        parsed = FencedLoads(FirstBlock(response_text), reply_json)

-----------------------------------------------------------------------------
(* Claims about the tailoring worker's queues and its consume loop *)

\* the deliveries whose result was published, in the order of publication
PublishedDeliveries == SelectSeq(log, LAMBDA d : d.published)

\* C34: in the tailoring worker both queues are declared durable before a
\* message is consumed, and every message in the output queue is persistent
\* and carries a status and the job_id of the input message whose callback
\* published it.
C34_DurableAndPersistent ==
    worker = "tailoring" =>
        /\ (unacked # <<>> \/ log # <<>>) =>
              \A q \in {IN_QUEUE, OUT_QUEUE} : [queue |-> q, durable |-> TRUE] \in queues
        /\ \A q \in queues : q.durable
        /\ Len(outQueue) = Len(PublishedDeliveries)
        /\ \A k \in 1..Len(outQueue) :
              /\ outQueue[k].delivery_mode = 2
              /\ outQueue[k].status = "success"
              /\ outQueue[k].job_id = PublishedDeliveries[k].msg.id

\* the results of two input messages are in the output queue
C34_Witness ==
    /\ worker = "tailoring"
    /\ Len(outQueue) = 2
    /\ outQueue[1].job_id # outQueue[2].job_id
    /\ outQueue[2].delivery_mode = 2
    /\ [queue |-> OUT_QUEUE, durable |-> TRUE] \in queues

\* C38: the tailoring worker's consume loop is not stopped by a message:
\* it ends only when the process is killed or an operation on the broker
\* raises.
C38_ConsumeLoopSurvivesMessage ==
    (worker = "tailoring" /\ wpc = "crashed") =>
        \/ log[cur].exit = "killed"
        \/ log[cur].settle # <<>>

-----------------------------------------------------------------------------
(* Termination of a request *)

\* C35: whatever the provider does and whatever max_retries is, the request
\* eventually is in Success or Failed, never with more than max_retries
\* transport calls, and no transport call is made once it is there.
C35_RequestTerminates ==
    /\ <>Terminal
    /\ [](calls <= max_retries)
    /\ [][Terminal => calls' = calls /\ cpc' = cpc]_vars

\* a request that failed after all of its three or more transport calls
C35_Witness ==
    /\ cpc = "failed"
    /\ max_retries >= 3
    /\ calls = max_retries

-----------------------------------------------------------------------------
(* Precedence of explicit parameters *)

Params == {"model", "max_tokens", "temperature"}

\* C37: a value given to the constructor (not None) is the value the client
\* holds, and the value sent to the transport is the argument of
\* chat_completion when one is given, else the client's; for every value
\* of the parameter's type.
C37_ExplicitValueWins ==
    \A p \in Params :
        /\ (opc \in {"constructed", "sent"} /\ ~init_args[p].none) =>
              self_cfg[p] = init_args[p].v
        /\ (opc = "sent" /\ ~call_args[p].none) => kwargs[p] = call_args[p].v
        /\ (opc = "sent" /\ call_args[p].none) => kwargs[p] = self_cfg[p]

-----------------------------------------------------------------------------
(* Use of the monitoring service's connection by its threads *)

\* the threads that are inside an operation on the channel or connection
ChannelUsers ==
    (IF consumer_pc \in ConsumerOps THEN {"consumer"} ELSE {})
        \cup (IF lifespan_pc \in LifespanOps THEN {"lifespan"} ELSE {})

\* C32: at no time are two threads inside operations on the worker's channel
\* or connection.
C32_OneThreadOnConnection == Cardinality(ChannelUsers) <= 1

-----------------------------------------------------------------------------
(* Concurrent requests on one client *)

\* the outcome and the number of calls of a request that runs alone against
\* a provider script, from loop index a on with last failure last
RECURSIVE Solo(_, _, _, _)
Solo(script, n, a, last) ==
    IF ~InRange(a, n) THEN [outcome |-> ExhaustedError(n, last), calls |-> a]
    ELSE LET e == [kind |-> OutcomeOf(script, a + 1), call |-> a + 1]
         IN  IF e.kind \in Responses
             THEN [outcome |-> Returned(ResponseOf(script, a + 1)), calls |-> a + 1]
             ELSE IF ExceptClause(e.kind) \in RetryingClauses
             THEN Solo(script, n, a + 1, e)
             ELSE [outcome |-> IF ExceptClause(e.kind) = "OpenAIError"
                               THEN ApiError(e) ELSE Propagated(e),
                   calls |-> a + 1]

CoTerminal(rq) == co_pc[rq] \in {"success", "failed"}

\* C33: of requests that run concurrently on one client, each makes at most
\* max_retries transport calls, ends with the outcome it would have alone
\* against the provider's responses to its own calls, and can take its next
\* step whatever state the other request is in.
C33_RequestsIndependent ==
    \A rq \in Requests :
        /\ co_calls[rq] <= co_max_retries
        /\ CoTerminal(rq) =>
              /\ co_outcome[rq] =
                    Solo(co_provider[rq], co_max_retries, 0, NoException).outcome
              /\ co_calls[rq] =
                    Solo(co_provider[rq], co_max_retries, 0, NoException).calls
        /\ co_pc[rq] = "attempting" =>
              ENABLED (CoTransportReturns(rq) \/ CoTransportRaises(rq))
        /\ co_pc[rq] = "retrying" => ENABLED CoBackoffElapsed(rq)

\* one request returned after a retry while the other was in backoff, and
\* the other then failed with its retries used up
C33_Witness ==
    /\ co_max_retries = 2
    /\ co_pc[1] = "success"
    /\ co_calls[1] = 2
    /\ co_pc[2] = "failed"
    /\ co_calls[2] = 2
    /\ co_outcome[2].msg = "Failed after retries"

=============================================================================
